---------------------------- MODULE Spec2Model ----------------------------
(***************************************************************************)
(* A model of the request-orchestration engine of agentland: the ticket    *)
(* workflow (src/orchestration), the agents (src/agents), the LLM client   *)
(* and usage tracker (src/llm) and the tool contract (src/tools).          *)
(*                                                                         *)
(* Text is modelled as a sequence of one-character strings, so that the    *)
(* regular-expression searches of the routing parser and the substring     *)
(* scans of the agents are computed character by character, as the code    *)
(* computes them.  A decimal number d is the record [num, exp] standing    *)
(* for num / 10^exp, with no trailing zero in the fraction, so that two    *)
(* records are equal exactly when the numbers are.                         *)
(***************************************************************************)
EXTENDS Integers, Sequences, FiniteSets, TLC

-----------------------------------------------------------------------------
(* Characters and strings                                                  *)

UpperChars == <<"A","B","C","D","E","F","G","H","I","J","K","L","M","N","O","P","Q","R","S","T","U","V","W","X","Y","Z">>
LowerChars == <<"a","b","c","d","e","f","g","h","i","j","k","l","m","n","o","p","q","r","s","t","u","v","w","x","y","z">>
DigitChars == <<"0","1","2","3","4","5","6","7","8","9">>

Range(s) == {s[i] : i \in 1..Len(s)}

UpperSet == Range(UpperChars)
DigitSet == Range(DigitChars)
WordSet  == Range(UpperChars) \cup Range(LowerChars) \cup Range(DigitChars) \cup {"_"}
SpaceSet == {" ", "\n", "\t"}

LowerOf == [c \in UpperSet |-> LowerChars[CHOOSE i \in 1..Len(UpperChars) : UpperChars[i] = c]]

\* str.lower() on one character
LowerChar(c) == IF c \in UpperSet THEN LowerOf[c] ELSE c

\* str.lower()
Lower(s) == [i \in 1..Len(s) |-> LowerChar(s[i])]

\* the class \s of the re module, on the characters the model uses
IsSpace(c) == c \in SpaceSet

\* the class \w
IsWord(c) == c \in WordSet

\* the class [\d.]
IsDigitDot(c) == c \in DigitSet \cup {"."}

IsDigit(c) == c \in DigitSet

DigitVal(c) == (CHOOSE i \in 1..Len(DigitChars) : DigitChars[i] = c) - 1

SetMin(S) == CHOOSE x \in S : \A y \in S : x <= y
SetMax(S) == CHOOSE x \in S : \A y \in S : x >= y

\* str.strip()
Strip(s) ==
    LET keep == {i \in 1..Len(s) : ~IsSpace(s[i])}
    IN  IF keep = {} THEN <<>> ELSE SubSeq(s, SetMin(keep), SetMax(keep))

\* needle in haystack (substring test)
Contains(hay, needle) ==
    \E i \in 1..(Len(hay) - Len(needle) + 1) :
        SubSeq(hay, i, i + Len(needle) - 1) = needle

-----------------------------------------------------------------------------
(* Decimal numbers: float(text) of TriageAgent._parse_routing_response     *)

Dec(n, e) == [num |-> n, exp |-> e]

RECURSIVE DigitsToNat(_)
DigitsToNat(ds) ==
    IF ds = <<>> THEN 0
    ELSE 10 * DigitsToNat(SubSeq(ds, 1, Len(ds) - 1)) + DigitVal(ds[Len(ds)])

RECURSIVE Pow10(_)
Pow10(e) == IF e = 0 THEN 1 ELSE 10 * Pow10(e - 1)

\* float() accepts a run of digits and dots iff it has at most one dot and
\* at least one digit ("1.", ".5" and "5" are numbers, "." and "1.2.3" not)
FloatOk(t) ==
    /\ Cardinality({i \in 1..Len(t) : t[i] = "."}) <= 1
    /\ \E i \in 1..Len(t) : IsDigit(t[i])
    /\ \A i \in 1..Len(t) : IsDigitDot(t[i])

\* float(t) for a t that float() accepts
FloatOf(t) ==
    LET dots == {i \in 1..Len(t) : t[i] = "."}
        dot  == IF dots = {} THEN Len(t) + 1 ELSE SetMin(dots)
        ip   == SubSeq(t, 1, dot - 1)
        fp   == SubSeq(t, dot + 1, Len(t))
        nz   == {i \in 1..Len(fp) : fp[i] # "0"}
        fr   == IF nz = {} THEN <<>> ELSE SubSeq(fp, 1, SetMax(nz))
    IN  Dec(DigitsToNat(ip \o fr), Len(fr))

\* a <= b on decimals
DecLeq(a, b) == a.num * Pow10(b.exp) <= b.num * Pow10(a.exp)

-----------------------------------------------------------------------------
(* The regular-expression searches of the routing parser                   *)

LabelRoute      == <<"r","o","u","t","e",":">>
LabelUrgency    == <<"u","r","g","e","n","c","y",":">>
LabelConfidence == <<"c","o","n","f","i","d","e","n","c","e",":">>
LabelReasoning  == <<"r","e","a","s","o","n","i","n","g",":">>

\* the (lower-case) label matches s at position i, ignoring case
LabelAt(s, i, label) ==
    /\ i + Len(label) - 1 <= Len(s)
    /\ \A k \in 1..Len(label) : LowerChar(s[i + k - 1]) = label[k]

\* the first position >= j of s that holds no whitespace (Len(s)+1 if none)
SkipSpace(s, j) ==
    SetMin({k \in j..(Len(s) + 1) : k = Len(s) + 1 \/ ~IsSpace(s[k])})

\* the end (exclusive) of the longest run of word characters from j
WordRunEnd(s, j) ==
    SetMin({k \in j..(Len(s) + 1) : k = Len(s) + 1 \/ ~IsWord(s[k])})

\* the end (exclusive) of the longest run of digits and dots from j
NumRunEnd(s, j) ==
    SetMin({k \in j..(Len(s) + 1) : k = Len(s) + 1 \/ ~IsDigitDot(s[k])})

\* the end (exclusive) of the line that holds position j
LineEnd(s, j) ==
    SetMin({k \in j..(Len(s) + 1) : k = Len(s) + 1 \/ s[k] = "\n"})

NoMatch == [found |-> FALSE, group |-> <<>>]
Match(g) == [found |-> TRUE, group |-> g]

\* re.search(label \s*(\w+), s, re.IGNORECASE): the leftmost position where
\* the label is followed, after any whitespace, by a word character
SearchWord(s, label) ==
    LET ok(i) == /\ LabelAt(s, i, label)
                 /\ LET j == SkipSpace(s, i + Len(label))
                    IN  j <= Len(s) /\ IsWord(s[j])
        hits == {i \in 1..Len(s) : ok(i)}
    IN  IF hits = {} THEN NoMatch
        ELSE LET j == SkipSpace(s, SetMin(hits) + Len(label))
             IN  Match(SubSeq(s, j, WordRunEnd(s, j) - 1))

\* re.search(label \s*([\d.]+), s, re.IGNORECASE)
SearchNum(s, label) ==
    LET ok(i) == /\ LabelAt(s, i, label)
                 /\ LET j == SkipSpace(s, i + Len(label))
                    IN  j <= Len(s) /\ IsDigitDot(s[j])
        hits == {i \in 1..Len(s) : ok(i)}
    IN  IF hits = {} THEN NoMatch
        ELSE LET j == SkipSpace(s, SetMin(hits) + Len(label))
             IN  Match(SubSeq(s, j, NumRunEnd(s, j) - 1))

\* re.search(label \s*(.+?)(?:\n|$), s, re.IGNORECASE): \s* is greedy and
\* gives whitespace back until the group can start on a character that is
\* not a newline; the lazy group then runs to the end of that line
SearchLine(s, label) ==
    LET starts(i) == {p \in (i + Len(label))..SkipSpace(s, i + Len(label)) :
                         p <= Len(s) /\ s[p] # "\n"}
        ok(i) == LabelAt(s, i, label) /\ starts(i) # {}
        hits == {i \in 1..Len(s) : ok(i)}
    IN  IF hits = {} THEN NoMatch
        ELSE LET p == SetMax(starts(SetMin(hits)))
             IN  Match(SubSeq(s, p, LineEnd(s, p) - 1))

-----------------------------------------------------------------------------
(* TriageAgent._parse_routing_response                                     *)

ESCALATION_AGENT == <<"e","s","c","a","l","a","t","i","o","n","_","a","g","e","n","t">>
BILLING_AGENT    == <<"b","i","l","l","i","n","g","_","a","g","e","n","t">>
TECHNICAL_AGENT  == <<"t","e","c","h","n","i","c","a","l","_","a","g","e","n","t">>
ACCOUNT_AGENT    == <<"a","c","c","o","u","n","t","_","a","g","e","n","t">>

URGENCY_LOW      == <<"l","o","w">>
URGENCY_MEDIUM   == <<"m","e","d","i","u","m">>
URGENCY_HIGH     == <<"h","i","g","h">>
URGENCY_CRITICAL == <<"c","r","i","t","i","c","a","l">>

CouldNotParse == <<"C","o","u","l","d"," ","n","o","t"," ","p","a","r","s","e"," ","r","o","u","t","i","n","g"," ","d","e","c","i","s","i","o","n">>

\* a variant: the defaults are the routing of a state nobody has triaged
DefaultRoutingInitial ==
    [ assigned_agent   |-> <<>>,
      urgency          |-> URGENCY_MEDIUM,
      confidence_score |-> Dec(0, 0),
      reasoning        |-> <<>> ]

\* the defaults the parser starts from
DefaultRouting ==
    [ assigned_agent   |-> ESCALATION_AGENT,
      urgency          |-> URGENCY_MEDIUM,
      confidence_score |-> Dec(5, 1),
      reasoning        |-> CouldNotParse ]

\* a variant: a value float() rejects becomes 0.0
ParseConfidenceZero(m, default) ==
    IF ~m.found THEN default
    ELSE IF FloatOk(Strip(m.group)) THEN FloatOf(Strip(m.group)) ELSE Dec(0, 0)

\* the try / except ValueError around float()
ParseConfidence(m, default) ==
    IF m.found /\ FloatOk(Strip(m.group)) THEN FloatOf(Strip(m.group)) ELSE default

\* a variant: the defaults are returned as soon as one field is missing
ParseRoutingFieldsAllOrNothing(response, defaults) ==
    LET route_match      == SearchWord(response, LabelRoute)
        urgency_match    == SearchWord(response, LabelUrgency)
        confidence_match == SearchNum(response, LabelConfidence)
        reasoning_match  == SearchLine(response, LabelReasoning)
    IN  IF route_match.found /\ urgency_match.found /\ confidence_match.found
           /\ reasoning_match.found
        THEN [ assigned_agent   |-> Strip(route_match.group),
               urgency          |-> Lower(Strip(urgency_match.group)),
               confidence_score |-> ParseConfidence(confidence_match, defaults.confidence_score),
               reasoning        |-> Strip(reasoning_match.group) ]
        ELSE defaults

\* each field is overwritten only when its own search matched
ParseRoutingFields(response, defaults) ==
    LET route_match      == SearchWord(response, LabelRoute)
        urgency_match    == SearchWord(response, LabelUrgency)
        confidence_match == SearchNum(response, LabelConfidence)
        reasoning_match  == SearchLine(response, LabelReasoning)
    IN  [ assigned_agent   |-> IF route_match.found
                               THEN Strip(route_match.group)
                               ELSE defaults.assigned_agent,
          urgency          |-> IF urgency_match.found
                               THEN Lower(Strip(urgency_match.group))
                               ELSE defaults.urgency,
          confidence_score |-> ParseConfidence(confidence_match, defaults.confidence_score),
          reasoning        |-> IF reasoning_match.found
                               THEN Strip(reasoning_match.group)
                               ELSE defaults.reasoning ]

parse_routing_response(response) == ParseRoutingFields(response, DefaultRouting)

-----------------------------------------------------------------------------
(* The request state: src/orchestration/state.py                           *)

Runs == {"r1", "r2"}

\* Python's None, where a string is expected and where a dict is expected
NoneStr == "None"
NoneRec == [kind |-> "None"]
IsNone(x) == x.kind = "None"


create_initial_state(ticket_id, correlation_id, customer_id, subject, body, category_hint, email, now) ==
    [ ticket_id        |-> ticket_id,
      correlation_id   |-> correlation_id,
      timestamp        |-> now,
      customer_context |-> [ customer_id    |-> customer_id,
                             tier           |-> "unknown",
                             email          |-> email,
                             account_status |-> "unknown",
                             history        |-> <<>> ],
      ticket_content   |-> [ subject       |-> subject,
                             body          |-> body,
                             category_hint |-> category_hint ],
      routing          |-> [ urgency          |-> URGENCY_MEDIUM,
                             assigned_agent   |-> <<>>,
                             confidence_score |-> Dec(0, 0),
                             reasoning        |-> <<>> ],
      agent_interactions |-> <<>>,
      resolution       |-> [ status                 |-> "pending",
                             response               |-> <<>>,
                             requires_human         |-> FALSE,
                             satisfaction_predicted |-> NoneStr ],
      metadata         |-> [ token_usage |-> <<>>,
                             latency_ms  |-> {},
                             error_count |-> 0,
                             retry_count |-> 0 ] ]

\* the state of a run that has not created one
NoState == [ticket_id |-> NoneStr]

-----------------------------------------------------------------------------
(* Routing after triage: src/orchestration/edges.py                        *)

Specialists == {"billing", "technical", "account", "escalation"}

\* TicketWorkflow.nodes
NodeNames == {"triage"} \cup Specialists

\* a variant: an unknown target goes back to triage
agent_to_node_retriage(assigned_agent) ==
    CASE assigned_agent = BILLING_AGENT    -> "billing"
      [] assigned_agent = TECHNICAL_AGENT  -> "technical"
      [] assigned_agent = ACCOUNT_AGENT    -> "account"
      [] assigned_agent = ESCALATION_AGENT -> "escalation"
      [] OTHER                             -> "triage"

\* a variant: the table is looked up without regard to case
agent_to_node_lenient(assigned_agent) ==
    CASE Lower(assigned_agent) = BILLING_AGENT    -> "billing"
      [] Lower(assigned_agent) = TECHNICAL_AGENT  -> "technical"
      [] Lower(assigned_agent) = ACCOUNT_AGENT    -> "account"
      [] OTHER                                    -> "escalation"

\* agent_to_node.get(assigned_agent, "escalation")
agent_to_node(assigned_agent) ==
    CASE assigned_agent = BILLING_AGENT    -> "billing"
      [] assigned_agent = TECHNICAL_AGENT  -> "technical"
      [] assigned_agent = ACCOUNT_AGENT    -> "account"
      [] assigned_agent = ESCALATION_AGENT -> "escalation"
      [] OTHER                             -> "escalation"

route_after_triage(st) == agent_to_node(st.routing.assigned_agent)

\* the specialist _execute_workflow runs for the name route_after_triage gave
SelectNode(next_node) == IF next_node \in NodeNames THEN next_node ELSE "escalation"

\* should_escalate: resolution.get("needs_escalation", False)
should_escalate(st) ==
    IF "needs_escalation" \in DOMAIN st.resolution
    THEN st.resolution.needs_escalation
    ELSE FALSE

check_resolution_complete(st) == st.resolution.status \in {"resolved", "escalated"}

-----------------------------------------------------------------------------
(* Tools: src/tools/base.py and the four tools                             *)

\* a variant: a result that reports a failure of its own is turned into a
\* failed outcome
ToolExecuteByResult(raw) ==
    IF raw.raised
    THEN [success |-> FALSE, result |-> NoneRec, error |-> raw.error]
    ELSE IF "success" \in DOMAIN raw.value /\ ~raw.value.success
         THEN [success |-> FALSE, result |-> raw.value, error |-> raw.value.status]
         ELSE [success |-> TRUE, result |-> raw.value, error |-> NoneStr]

\* BaseTool.execute: the try / except around _execute.  raw is what _execute
\* did: it raised, or it returned raw.value
ToolExecute(raw) ==
    IF raw.raised
    THEN [success |-> FALSE, result |-> NoneRec, error |-> raw.error]
    ELSE [success |-> TRUE, result |-> raw.value, error |-> NoneStr]

Raised(msg) == [raised |-> TRUE, error |-> msg, value |-> NoneRec]
Returned(v) == [raised |-> FALSE, error |-> NoneStr, value |-> v]

\* DatabaseTool._execute, query_type customer_info
CustomerInfoResults ==
    { Returned([kind |-> "dict", found |-> TRUE,
                customer |-> [tier |-> "pro", account_status |-> "active",
                              email |-> "john.doe@example.com"]]),
      Returned([kind |-> "dict", found |-> FALSE, customer |-> NoneRec]),
      Raised("database unavailable") }

\* DatabaseTool._execute, query_type payment_history (amounts in cents)
PaymentHistoryResults ==
    { Returned([kind |-> "dict", found |-> TRUE,
                payments |-> << [payment_id |-> "PAY-001", amount |-> 4999],
                                [payment_id |-> "PAY-002", amount |-> 4999] >>]),
      Returned([kind |-> "dict", found |-> FALSE, payments |-> <<>>]),
      Raised("database unavailable") }

\* DatabaseTool._execute, query_type ticket_history
TicketHistoryResults ==
    { Returned([kind |-> "dict", found |-> TRUE, total_count |-> 2]),
      Raised("database unavailable") }

\* KnowledgeBaseTool._execute
KnowledgeBaseResults ==
    { Returned([kind |-> "dict", total_found |-> 1]),
      Returned([kind |-> "dict", total_found |-> 0]),
      Raised("search unavailable") }

\* PaymentTool._process_refund
RefundResults ==
    { Returned([kind |-> "dict", success |-> TRUE, status |-> "processed"]),
      Returned([kind |-> "dict", success |-> FALSE, status |-> "unavailable"]),
      Raised("gateway error") }

\* EmailTool._execute
EmailResults ==
    { Returned([kind |-> "dict", success |-> TRUE, status |-> "sent"]),
      Returned([kind |-> "dict", success |-> FALSE, status |-> "unavailable"]),
      Raised("smtp error") }

\* ToolRegistry.get_tools_for_agent: agent_tool_mapping
agent_tool_mapping(agent_type) ==
    CASE agent_type = "billing"    -> {"database_query", "payment_gateway", "email_sender"}
      [] agent_type = "technical"  -> {"database_query", "knowledge_base", "email_sender"}
      [] agent_type = "account"    -> {"database_query", "email_sender"}
      [] agent_type = "escalation" -> {"database_query", "payment_gateway", "knowledge_base",
                                       "email_sender"}
      [] agent_type = "triage"     -> {"database_query"}
      [] OTHER                     -> {}

\* one entry of the record of tool invocations
ToolCall(node, tool, op, out) ==
    [ node |-> node, tool |-> tool, op |-> op, success |-> out.success,
      result |-> out.result, error |-> out.error ]

-----------------------------------------------------------------------------
(* The usage tracker: src/llm/token_counter.py                             *)

DefaultModel == "claude-sonnet-4-5-20250929"

\* a variant: a model the table does not list costs nothing
PricingListedOnly(model) ==
    CASE model = "claude-sonnet-4-5-20250929" -> [input |-> 3, output |-> 15]
      [] model = "claude-sonnet-3-5"          -> [input |-> 3, output |-> 15]
      [] model = "claude-opus-4"              -> [input |-> 15, output |-> 75]
      [] OTHER                                -> [input |-> 0, output |-> 0]

\* the price table, dollars per million tokens
Pricing(model) ==
    CASE model = "claude-sonnet-4-5-20250929" -> [input |-> 3, output |-> 15]
      [] model = "claude-sonnet-3-5"          -> [input |-> 3, output |-> 15]
      [] model = "claude-opus-4"              -> [input |-> 15, output |-> 75]
      [] OTHER                                -> [input |-> 3, output |-> 15]

\* calculate_cost, in millionths of a dollar
calculate_cost(prompt_tokens, completion_tokens, model) ==
    prompt_tokens * Pricing(model).input + completion_tokens * Pricing(model).output

NewTracker ==
    [total_prompt_tokens |-> 0, total_completion_tokens |-> 0, total_cost |-> 0, calls |-> 0]

\* a variant: the prompt total is assigned, not added to
track_assigning(tracker, prompt_tokens, completion_tokens, model) ==
    [ total_prompt_tokens     |-> prompt_tokens,
      total_completion_tokens |-> tracker.total_completion_tokens + completion_tokens,
      total_cost              |-> tracker.total_cost
                                    + calculate_cost(prompt_tokens, completion_tokens, model),
      calls                   |-> tracker.calls + 1 ]

\* TokenUsageTracker.track
track(tracker, prompt_tokens, completion_tokens, model) ==
    [ total_prompt_tokens     |-> tracker.total_prompt_tokens + prompt_tokens,
      total_completion_tokens |-> tracker.total_completion_tokens + completion_tokens,
      total_cost              |-> tracker.total_cost
                                    + calculate_cost(prompt_tokens, completion_tokens, model),
      calls                   |-> tracker.calls + 1 ]

\* a variant: reset clears the token totals only
reset_tokens_only(tracker) ==
    [tracker EXCEPT !.total_prompt_tokens = 0, !.total_completion_tokens = 0]

\* TokenUsageTracker.reset
reset(tracker) ==
    [ total_prompt_tokens |-> 0, total_completion_tokens |-> 0, total_cost |-> 0, calls |-> 0 ]

\* TokenUsageTracker.get_summary; the average is the pair it divides
get_summary(tracker) ==
    [ total_prompt_tokens     |-> tracker.total_prompt_tokens,
      total_completion_tokens |-> tracker.total_completion_tokens,
      total_tokens            |-> tracker.total_prompt_tokens
                                    + tracker.total_completion_tokens,
      total_cost              |-> tracker.total_cost,
      total_calls             |-> tracker.calls,
      avg_tokens_per_call     |-> IF tracker.calls > 0
                                  THEN [num |-> tracker.total_prompt_tokens
                                                  + tracker.total_completion_tokens,
                                        den |-> tracker.calls]
                                  ELSE [num |-> 0, den |-> 1] ]

-----------------------------------------------------------------------------
(* The model client: src/llm/client.py and src/llm/retry.py                *)

\* the failures of the backend capability
BackendFailures == {"RateLimited", "TimedOut", "BackendUnavailable", "InvalidRequest"}

\* class -> its base classes (src/utils/errors.py)
IsInstance(cls, of) ==
    \/ cls = of
    \/ cls \in {"LLMRateLimitError", "LLMTimeoutError"} /\ of = "LLMError"

\* a variant: every LLMError is retried
RetryOnAnyLLMError(cls) == IsInstance(cls, "LLMError")

\* retry_if_exception_type((LLMRateLimitError, LLMTimeoutError))
RetryOn(cls) == IsInstance(cls, "LLMRateLimitError") \/ IsInstance(cls, "LLMTimeoutError")

\* stop_after_attempt(max_attempts)
MaxAttempts == 3

LLMFailedPrefix == <<"L","L","M"," ","g","e","n","e","r","a","t","i","o","n"," ","f","a","i","l","e","d",":"," ">>

\* str(e) of the LLMError that LLMClient.generate raises for a backend failure
FailureText(f) ==
    CASE f = "RateLimited"        -> LLMFailedPrefix \o <<"r","a","t","e"," ","l","i","m","i","t">>
      [] f = "TimedOut"           -> LLMFailedPrefix \o <<"t","i","m","e","o","u","t">>
      [] f = "BackendUnavailable" -> LLMFailedPrefix \o <<"u","n","a","v","a","i","l","a","b","l","e">>
      [] OTHER                    -> LLMFailedPrefix \o <<"i","n","v","a","l","i","d"," ","r","e","q","u","e","s","t">>

\* one attempt of LLMClient.generate: the except clause wraps every failure
\* of the backend in an LLMError
GenerateAttempt(b) ==
    IF b.kind = "ok"
    THEN [raised |-> FALSE, cls |-> NoneStr, text |-> <<>>, response |-> b.response]
    ELSE [raised |-> TRUE, cls |-> "LLMError", text |-> FailureText(b.failure),
          response |-> NoneRec]

\* the retry wrapper's decision after an attempt that raised
\* a variant: the wrapper retries every failure and stops one attempt late
ShouldRetryOnceMore(cls, attempt) == attempt < MaxAttempts + 1

ShouldRetry(cls, attempt) == RetryOn(cls) /\ attempt < MaxAttempts

MinWait == 2
MaxWait == 10

RECURSIVE Pow2(_)
Pow2(e) == IF e = 0 THEN 1 ELSE 2 * Pow2(e - 1)

\* a variant: the exponent is the number of the attempt itself
wait_exponential_from_two(attempt_number, min_wait, max_wait) ==
    LET result  == 1 * Pow2(attempt_number)
        capped  == IF result <= max_wait THEN result ELSE max_wait
    IN  IF capped >= min_wait THEN capped ELSE min_wait

\* wait_exponential(multiplier=1, min=min_wait, max=max_wait), for the
\* attempt that just failed: multiplier * 2^(attempt_number - 1), kept
\* between min_wait and max_wait
wait_exponential(attempt_number, min_wait, max_wait) ==
    LET result  == 1 * Pow2(attempt_number - 1)
        capped  == IF result <= max_wait THEN result ELSE max_wait
        floor   == IF min_wait >= 0 THEN min_wait ELSE 0
    IN  IF capped >= floor THEN capped ELSE floor

\* estimate_tokens: max(1, len(text) // 4)
estimate_tokens(text) == IF Len(text) \div 4 >= 1 THEN Len(text) \div 4 ELSE 1

LLMResponse(content, prompt_tokens) ==
    [ kind |-> "LLMResponse", content |-> content, prompt_tokens |-> prompt_tokens,
      completion_tokens |-> estimate_tokens(content), model |-> DefaultModel ]

-----------------------------------------------------------------------------
(* Inputs                                                                  *)

\* the tickets handed to process_ticket
Tickets ==
    { [ customer_id |-> "C12345", email |-> "john@example.com",
        subject |-> <<"I"," ","w","a","s"," ","c","h","a","r","g","e","d"," ","t","w","i","c","e">>, body |-> <<"s","u","b","s","c","r","i","p","t","i","o","n">>,
        category_hint |-> "billing" ],
      [ customer_id |-> "C99999", email |-> "",
        subject |-> <<"P","a","s","s","w","o","r","d"," ","r","e","s","e","t">>, body |-> <<"l","o","c","k","e","d"," ","o","u","t">>,
        category_hint |-> NoneStr ],
      [ customer_id |-> "", email |-> "",
        subject |-> <<"I"," ","w","a","s"," ","c","h","a","r","g","e","d"," ","t","w","i","c","e">>, body |-> <<"s","u","b","s","c","r","i","p","t","i","o","n">>,
        category_hint |-> NoneStr ],
      [ customer_id |-> "", email |-> "",
        subject |-> <<"A","p","p"," ","c","r","a","s","h">>, body |-> <<"e","r","r","o","r"," ","o","n"," ","s","t","a","r","t">>,
        category_hint |-> NoneStr ],
      [ customer_id |-> "C99999", email |-> "jane@example.com",
        subject |-> <<"G","D","P","R"," ","d","a","t","a"," ","d","e","l","e","t","i","o","n"," ","r","e","q","u","e","s","t">>, body |-> <<"d","e","l","e","t","e"," ","m","y"," ","p","e","r","s","o","n","a","l"," ","d","a","t","a">>,
        category_hint |-> NoneStr ] }

\* texts the backend may generate for the triage prompt: the four answers of
\* the mock backend, and answers that do not keep to the format
TriageContents ==
    { <<"R","O","U","T","E",":"," ","b","i","l","l","i","n","g","_","a","g","e","n","t"," ","|"," ","U","R","G","E","N","C","Y",":"," ","m","e","d","i","u","m"," ","|"," ","C","O","N","F","I","D","E","N","C","E",":"," ","0",".","9","2"," ","|"," ","R","E","A","S","O","N","I","N","G",":"," ","C","u","s","t","o","m","e","r"," ","m","e","n","t","i","o","n","s"," ","b","i","l","l","i","n","g","-","r","e","l","a","t","e","d"," ","t","e","r","m","s">>,
      <<"R","O","U","T","E",":"," ","t","e","c","h","n","i","c","a","l","_","a","g","e","n","t"," ","|"," ","U","R","G","E","N","C","Y",":"," ","h","i","g","h"," ","|"," ","C","O","N","F","I","D","E","N","C","E",":"," ","0",".","8","8"," ","|"," ","R","E","A","S","O","N","I","N","G",":"," ","T","e","c","h","n","i","c","a","l"," ","i","s","s","u","e"," ","r","e","p","o","r","t","e","d">>,
      <<"R","O","U","T","E",":"," ","a","c","c","o","u","n","t","_","a","g","e","n","t"," ","|"," ","U","R","G","E","N","C","Y",":"," ","m","e","d","i","u","m"," ","|"," ","C","O","N","F","I","D","E","N","C","E",":"," ","0",".","8","5"," ","|"," ","R","E","A","S","O","N","I","N","G",":"," ","A","c","c","o","u","n","t"," ","m","a","n","a","g","e","m","e","n","t"," ","i","s","s","u","e">>,
      <<"R","O","U","T","E",":"," ","e","s","c","a","l","a","t","i","o","n","_","a","g","e","n","t"," ","|"," ","U","R","G","E","N","C","Y",":"," ","l","o","w"," ","|"," ","C","O","N","F","I","D","E","N","C","E",":"," ","0",".","6","0"," ","|"," ","R","E","A","S","O","N","I","N","G",":"," ","U","n","c","l","e","a","r"," ","c","a","t","e","g","o","r","y">>,
      <<"I"," ","a","m"," ","n","o","t"," ","s","u","r","e"," ","w","h","e","r","e"," ","t","h","i","s"," ","b","e","l","o","n","g","s",".">>,
      <<"R","O","U","T","E",":"," ","b","i","l","l","i","n","g","\n","U","R","G","E","N","C","Y",":"," ","u","r","g","e","n","t","\n","C","O","N","F","I","D","E","N","C","E",":"," ","9","5","\n","R","E","A","S","O","N","I","N","G",":"," ","r","e","f","u","n","d">>,
      <<"U","R","G","E","N","C","Y",":"," ","h","i","g","h","\n","C","O","N","F","I","D","E","N","C","E",":"," ","0",".","9","\n","R","E","A","S","O","N","I","N","G",":"," ","n","o"," ","r","o","u","t","e"," ","g","i","v","e","n">>,
      <<"r","o","u","t","e",":"," ","T","e","c","h","n","i","c","a","l","_","A","g","e","n","t","\n","c","o","n","f","i","d","e","n","c","e",":"," ","1",".","5">>,
      <<"R","O","U","T","E",":"," ","t","r","i","a","g","e","\n","C","O","N","F","I","D","E","N","C","E",":"," ","1",".","2",".","3">>,
      <<"R","O","U","T","E",":","\n","U","R","G","E","N","C","Y",":"," ","c","r","i","t","i","c","a","l">> }

\* texts the backend may generate for a specialist prompt
SpecialistContents ==
    { <<"Y","o","u","r"," ","i","s","s","u","e"," ","i","s"," ","r","e","s","o","l","v","e","d",".">>,
      <<"A","C","T","I","O","N",":"," ","P","R","O","C","E","S","S","_","R","E","F","U","N","D"," ","a","p","p","r","o","v","e","d">>,
      <<"T","h","i","s"," ","r","e","q","u","i","r","e","s"," ","h","u","m","a","n"," ","r","e","v","i","e","w">>,
      <<"D","e","-","E","S","C","A","L","A","T","I","O","N"," ","c","o","m","p","l","e","t","e">> }

\* prompt token counts the backend may report
PromptTokenCounts == {100, 250}

\* what one call of the backend capability may do
Backend(contents) ==
    { [kind |-> "ok", failure |-> NoneStr, response |-> LLMResponse(c, p)] :
          c \in contents, p \in PromptTokenCounts }
    \cup { [kind |-> "error", failure |-> f, response |-> NoneRec] : f \in BackendFailures }

-----------------------------------------------------------------------------
(* State                                                                   *)

VARIABLES
    pc,             \* [Runs -> where the run is suspended]
    state,          \* [Runs -> the run's state dict]
    local,          \* [Runs -> the local variables of the executing agent]
    executed,       \* [Runs -> the node functions called, in order]
    outcome,        \* [Runs -> what the caller of TicketWorkflow.execute got]
    tool_log,       \* [Runs -> the BaseTool.execute calls made, in order]
    llm_log,        \* [Runs -> the LLMClient.generate attempts made, in order]
    usage_tracker,  \* the shared TokenUsageTracker
    clock,          \* the wall clock read by create_initial_state
    parse_input,    \* the text handed to the routing parser
    parse_result,   \* what the routing parser returned for it
    track_input,    \* the arguments of a direct call of TokenUsageTracker.track
    backoff_input,  \* a retry policy and the number of the attempt that failed
    backoff_result, \* the seconds the policy waits after that attempt
    track_log       \* the direct calls of track and reset made on the tracker, in order

runVars == <<pc, state, local, executed, outcome, tool_log, llm_log, usage_tracker, clock>>
parseVars == <<parse_input, parse_result>>
callVars == <<track_input, backoff_input, backoff_result, track_log>>
vars == <<pc, state, local, executed, outcome, tool_log, llm_log, usage_tracker, clock,
          parse_input, parse_result, track_input, backoff_input, backoff_result, track_log>>

NoLocals ==
    [ node |-> "none", tool_calls |-> <<>>, payment_history |-> NoneRec,
      customer_info |-> NoneRec, customer_email |-> NoneStr, response |-> NoneRec,
      attempt |-> 0 ]

NoOutcome == [kind |-> "none", error |-> NoneRec, state |-> NoState]

\* no direct call of the tracker or of the retry policy is being looked at
CallInit ==
    /\ track_input = NoneRec
    /\ backoff_input = NoneRec
    /\ backoff_result = NoneRec
    /\ track_log = <<>>

RunInit(started) ==
    /\ pc = [r \in Runs |-> IF r \in started THEN "idle" ELSE "off"]
    /\ state = [r \in Runs |-> NoState]
    /\ local = [r \in Runs |-> NoLocals]
    /\ executed = [r \in Runs |-> <<>>]
    /\ outcome = [r \in Runs |-> NoOutcome]
    /\ tool_log = [r \in Runs |-> <<>>]
    /\ llm_log = [r \in Runs |-> <<>>]
    /\ usage_tracker = NewTracker
    /\ clock = 0

\* a variant: all runs work on one state dict
StepSharedState(r, p, st, lo, ex, oc, tl, ll, tr) ==
    /\ pc' = [pc EXCEPT ![r] = p]
    /\ state' = [q \in Runs |-> st]
    /\ local' = [local EXCEPT ![r] = lo]
    /\ executed' = [executed EXCEPT ![r] = ex]
    /\ outcome' = [outcome EXCEPT ![r] = oc]
    /\ tool_log' = [tool_log EXCEPT ![r] = tl]
    /\ llm_log' = [llm_log EXCEPT ![r] = ll]
    /\ usage_tracker' = tr
    /\ clock' = IF pc[r] = "idle" THEN clock + 1 ELSE clock
    /\ UNCHANGED parseVars
    /\ UNCHANGED callVars

\* one step of run r: every variable of the run gets its next value; the
\* clock advances when a state is created
Step(r, p, st, lo, ex, oc, tl, ll, tr) ==
    /\ pc' = [pc EXCEPT ![r] = p]
    /\ state' = [state EXCEPT ![r] = st]
    /\ local' = [local EXCEPT ![r] = lo]
    /\ executed' = [executed EXCEPT ![r] = ex]
    /\ outcome' = [outcome EXCEPT ![r] = oc]
    /\ tool_log' = [tool_log EXCEPT ![r] = tl]
    /\ llm_log' = [llm_log EXCEPT ![r] = ll]
    /\ usage_tracker' = tr
    /\ clock' = IF pc[r] = "idle" THEN clock + 1 ELSE clock
    /\ UNCHANGED parseVars
    /\ UNCHANGED callVars

-----------------------------------------------------------------------------
(* TicketWorkflow.execute and _execute_workflow: src/orchestration/graph.py *)

ErrorPrefix == <<"A","n"," ","e","r","r","o","r"," ","o","c","c","u","r","r","e","d"," ","p","r","o","c","e","s","s","i","n","g"," ","y","o","u","r"," ","t","i","c","k","e","t",":"," ">>

\* a variant: the except clause counts the error and leaves the resolution
execute_except_count_only(st, e) ==
    [st EXCEPT !.metadata.error_count = @ + 1]

\* a variant: the except clause returns the state instead of raising
execute_raise_swallowed(st, e) == [kind |-> "state", error |-> NoneRec, state |-> st]

\* the except clause of TicketWorkflow.execute: the state it leaves behind
execute_except(st, e) ==
    [st EXCEPT !.metadata.error_count = @ + 1,
               !.resolution = [ status         |-> "error",
                                response       |-> ErrorPrefix \o e.text,
                                requires_human |-> TRUE ]]

\* ... and what it hands to the caller: the bare raise
execute_raise(st, e) == [kind |-> "exception", error |-> e, state |-> NoState]

\* return state
execute_return(st) == [kind |-> "state", error |-> NoneRec, state |-> st]

\* a variant: the technical node starts with the billing agent's lookup
FirstStepTechnicalBilling(node, st) ==
    LET has_customer == st.customer_context.customer_id # ""
    IN  CASE node = "triage"     -> IF has_customer THEN "triage_db" ELSE "triage_llm"
          [] node = "billing"    -> IF has_customer THEN "billing_db" ELSE "billing_llm"
          [] node = "technical"  -> IF has_customer THEN "billing_db" ELSE "billing_llm"
          [] node = "account"    -> IF has_customer THEN "account_db" ELSE "account_llm"
          [] node = "escalation" -> IF has_customer THEN "escalation_db" ELSE "escalation_kb"

\* a variant: the billing node looks the payments up without a customer id
FirstStepBillingLookup(node, st) ==
    LET has_customer == st.customer_context.customer_id # ""
    IN  CASE node = "triage"     -> IF has_customer THEN "triage_db" ELSE "triage_llm"
          [] node = "billing"    -> "billing_db"
          [] node = "technical"  -> "technical_kb"
          [] node = "account"    -> IF has_customer THEN "account_db" ELSE "account_llm"
          [] node = "escalation" -> IF has_customer THEN "escalation_db" ELSE "escalation_kb"

\* the first suspension point of a node function, for the state it is given
FirstStep(node, st) ==
    LET has_customer == st.customer_context.customer_id # ""
    IN  CASE node = "triage"     -> IF has_customer THEN "triage_db" ELSE "triage_llm"
          [] node = "billing"    -> IF has_customer THEN "billing_db" ELSE "billing_llm"
          [] node = "technical"  -> "technical_kb"
          [] node = "account"    -> IF has_customer THEN "account_db" ELSE "account_llm"
          [] node = "escalation" -> IF has_customer THEN "escalation_db" ELSE "escalation_kb"

\* the locals of an agent's execute when it starts
FreshLocals(node) == [NoLocals EXCEPT !.node = node]

\* the node function's bookkeeping after its agent returned
NodeDone(st, node) == [st EXCEPT !.metadata.latency_ms = @ \cup {node}]

\* a variant: the mapping is replaced by one that holds the new entry only
SetTokenUsageOnly(st, node, response) ==
    [st EXCEPT !.metadata.token_usage =
        (node :> [prompt |-> response.prompt_tokens,
                  completion |-> response.completion_tokens])]

\* state["metadata"]["token_usage"][node] = {...}
SetTokenUsage(st, node, response) ==
    [st EXCEPT !.metadata.token_usage =
        (node :> [prompt |-> response.prompt_tokens,
                  completion |-> response.completion_tokens]) @@ @]

\* a variant: the record is inserted at the front of the log
AppendInteractionFirst(st, agent_name, action, reasoning, tool_calls, result) ==
    [st EXCEPT !.agent_interactions =
        <<[ agent_name |-> agent_name,
            timestamp  |-> st.timestamp,
            action     |-> action,
            reasoning  |-> reasoning,
            tool_calls |-> tool_calls,
            result     |-> result ]>> \o @]

\* a variant: the log is replaced by the new record
AppendInteractionOnly(st, agent_name, action, reasoning, tool_calls, result) ==
    [st EXCEPT !.agent_interactions =
        <<[ agent_name |-> agent_name,
            timestamp  |-> st.timestamp,
            action     |-> action,
            reasoning  |-> reasoning,
            tool_calls |-> tool_calls,
            result     |-> result ]>>]

\* state["agent_interactions"].append({...})
AppendInteraction(st, agent_name, action, reasoning, tool_calls, result) ==
    [st EXCEPT !.agent_interactions =
        Append(@, [ agent_name |-> agent_name,
                    timestamp  |-> st.timestamp,
                    action     |-> action,
                    reasoning  |-> reasoning,
                    tool_calls |-> tool_calls,
                    result     |-> result ])]

\* a variant: the node that failed appends an interaction before it raises
FailLoggingInteraction(r, e, tl, ll, tr) ==
    LET st == execute_except(AppendInteraction(state[r], local[r].node, "fail", e.text,
                                               <<>>, e.text), e)
    IN  Step(r, "failed", st, local[r], executed[r], execute_raise(st, e), tl, ll, tr)

\* the run fails with exception e: the except clause of execute
Fail(r, e, tl, ll, tr) ==
    LET st == execute_except(state[r], e)
    IN  Step(r, "failed", st, local[r], executed[r], execute_raise(st, e), tl, ll, tr)

\* the specialist returned st: _execute_workflow and execute return it
Return(r, st, tl, ll, tr) ==
    Step(r, "done", st, local[r], executed[r], execute_return(st), tl, ll, tr)

\* asyncio.CancelledError, thrown into the run at the await it is suspended at
CancelledError ==
    [raised |-> TRUE, cls |-> "CancelledError", text |-> <<>>, response |-> NoneRec]

\* the suspension points of a run: the awaits of a tool call or of generate
Suspended(r) == pc[r] \notin {"off", "idle", "done", "failed", "cancelled"}

\* a variant: the except clause of execute handles the cancellation too
execute_cancelled_handled(st, e) == execute_except(st, e)

\* what the cancellation leaves of the state: CancelledError is no Exception,
\* so neither LLMClient.generate, BaseTool.execute nor the except clause of
\* TicketWorkflow.execute handles it
execute_cancelled(st, e) == st

\* the caller's task is cancelled while run r is suspended
Cancel(r) ==
    /\ Suspended(r)
    /\ Step(r, "cancelled", execute_cancelled(state[r], CancelledError), local[r],
            executed[r], execute_raise(state[r], CancelledError), tool_log[r], llm_log[r],
            usage_tracker)

\* the record of one attempt g of LLMClient.generate made by run r, and the
\* seconds the retry wrapper slept after it
LogEntry(r, g, slept) ==
    [ node              |-> local[r].node,
      raised            |-> g.raised,
      content           |-> IF g.raised THEN g.text ELSE g.response.content,
      prompt_tokens     |-> IF g.raised THEN 0 ELSE g.response.prompt_tokens,
      completion_tokens |-> IF g.raised THEN 0 ELSE g.response.completion_tokens,
      slept             |-> slept ]

Logged(r, g) == Append(llm_log[r], LogEntry(r, g, 0))

\* a call of LLMClient.generate through the retry wrapper fails for good, or
\* sleeps and is attempted again
RetryOrFail(r, g) ==
    LET attempt == local[r].attempt + 1
    IN  IF ShouldRetry(g.cls, attempt)
        THEN Step(r, pc[r], state[r], [local[r] EXCEPT !.attempt = attempt], executed[r],
                  outcome[r], tool_log[r],
                  Append(llm_log[r],
                         LogEntry(r, g, wait_exponential(attempt, MinWait, MaxWait))),
                  usage_tracker)
        ELSE Fail(r, g, tool_log[r], Logged(r, g), usage_tracker)

\* process_ticket / TicketWorkflow.execute up to the first suspension point
Execute(r) ==
    /\ pc[r] = "idle"
    /\ \E t \in Tickets :
         LET st == create_initial_state("T-" \o r, "CID-" \o r, t.customer_id, t.subject,
                                        t.body, t.category_hint, t.email, clock)
         IN  Step(r, FirstStep("triage", st), st, FreshLocals("triage"),
                  <<"triage">>, outcome[r], tool_log[r], llm_log[r], usage_tracker)

-----------------------------------------------------------------------------
(* TriageAgent.execute: src/agents/triage_agent.py                         *)

RoutedTo == <<"R","o","u","t","e","d"," ","t","o"," ">>

\* a variant: a lookup that found nobody marks the customer as a free one
TriageEnrichUnknown(st, out) ==
    IF out.success
    THEN IF out.result.found
         THEN [st EXCEPT !.customer_context.tier = out.result.customer.tier,
                         !.customer_context.account_status = out.result.customer.account_status]
         ELSE [st EXCEPT !.customer_context.tier = "free"]
    ELSE st

\* the enrichment of customer_context from the customer_info lookup
TriageEnrich(st, out) ==
    IF out.success /\ out.result.found
    THEN [st EXCEPT !.customer_context.tier = out.result.customer.tier,
                    !.customer_context.account_status = out.result.customer.account_status]
    ELSE st

\* a variant: the classifier records its target as the category hint
TriageUpdateHinting(st, response) ==
    LET routing_decision == parse_routing_response(response.content)
        st1 == [st EXCEPT !.routing = routing_decision,
                          !.ticket_content.category_hint = "classified"]
        st2 == AppendInteraction(st1, "triage_agent", "route", routing_decision.reasoning,
                                 <<>>, RoutedTo \o routing_decision.assigned_agent)
    IN  SetTokenUsage(st2, "triage", response)

\* the update of the state after the model answered
TriageUpdate(st, response) ==
    LET routing_decision == parse_routing_response(response.content)
        st1 == [st EXCEPT !.routing = routing_decision]
        st2 == AppendInteraction(st1, "triage_agent", "route", routing_decision.reasoning,
                                 <<>>, RoutedTo \o routing_decision.assigned_agent)
    IN  SetTokenUsage(st2, "triage", response)

\* the database lookup of the triage agent returns
TriageDb(r) ==
    /\ pc[r] = "triage_db"
    /\ \E raw \in CustomerInfoResults :
         LET out == ToolExecute(raw)
         IN  Step(r, "triage_llm", TriageEnrich(state[r], out), local[r], executed[r],
                  outcome[r],
                  Append(tool_log[r], ToolCall("triage", "database_query", "customer_info", out)),
                  llm_log[r], usage_tracker)

\* the model call of the triage agent returns: the agent sets the routing,
\* triage_node returns, route_after_triage picks the specialist and the
\* specialist's node function runs to its first suspension point
TriageLLM(r) ==
    /\ pc[r] = "triage_llm"
    /\ \E b \in Backend(TriageContents) :
         LET g == GenerateAttempt(b)
         IN  IF g.raised
             THEN RetryOrFail(r, g)
             ELSE LET st   == NodeDone(TriageUpdate(state[r], g.response), "triage")
                      node == SelectNode(route_after_triage(st))
                  IN  Step(r, FirstStep(node, st), st, FreshLocals(node),
                           Append(executed[r], node), outcome[r], tool_log[r], Logged(r, g),
                           track(usage_tracker, g.response.prompt_tokens,
                                 g.response.completion_tokens, DefaultModel))

-----------------------------------------------------------------------------
(* BillingAgent.execute: src/agents/billing_agent.py                       *)

ProcessRefund == <<"A","C","T","I","O","N",":"," ","P","R","O","C","E","S","S","_","R","E","F","U","N","D">>

\* a variant: payments on file are enough for a refund
RefundWantedAnyText(resolution_text, payment_history) ==
    /\ ~IsNone(payment_history)
    /\ payment_history.payments # <<>>

\* the refund condition: the marker is in the text and the lookup gave payments
RefundWanted(resolution_text, payment_history) ==
    /\ Contains(resolution_text, ProcessRefund)
    /\ ~IsNone(payment_history)
    /\ payment_history.payments # <<>>

\* a variant: the specialist leaves the ticket in progress
ResolvedInProgress(response) ==
    [status |-> "in_progress", response |-> response.content, requires_human |-> FALSE]

\* the resolution every specialist but escalation writes
Resolved(response) ==
    [status |-> "resolved", response |-> response.content, requires_human |-> FALSE]

BillingFinish(st, lo) ==
    LET st1 == [st EXCEPT !.resolution = Resolved(lo.response)]
        st2 == AppendInteraction(st1, "billing_agent", "resolve",
                                 <<"P","r","o","c","e","s","s","e","d"," ","b","i","l","l","i","n","g"," ","i","s","s","u","e"," ","w","i","t","h"," ","p","a","y","m","e","n","t"," ","t","o","o","l","s">>,
                                 lo.tool_calls, <<"I","s","s","u","e"," ","r","e","s","o","l","v","e","d">>)
    IN  NodeDone(SetTokenUsage(st2, "billing", lo.response), "billing")

BillingDb(r) ==
    /\ pc[r] = "billing_db"
    /\ \E raw \in PaymentHistoryResults :
         LET out == ToolExecute(raw)
             lo  == IF out.success
                    THEN [local[r] EXCEPT
                            !.payment_history = out.result,
                            !.tool_calls = Append(@,
                                [ tool   |-> "database_query",
                                  input  |-> [query_type |-> "payment_history",
                                              customer_id |-> state[r].customer_context.customer_id],
                                  output |-> out.result ])]
                    ELSE local[r]
         IN  Step(r, "billing_llm", state[r], lo, executed[r], outcome[r],
                  Append(tool_log[r], ToolCall("billing", "database_query", "payment_history", out)),
                  llm_log[r], usage_tracker)

\* EmailInput(to=None, ...): pydantic refuses a None for the str field
EmailInputError ==
    [raised |-> TRUE, cls |-> "ValidationError",
     text |-> <<"1"," ","v","a","l","i","d","a","t","i","o","n"," ","e","r","r","o","r"," ","f","o","r"," ","E","m","a","i","l","I","n","p","u","t">>, response |-> NoneRec]

\* a variant: an empty address counts as none, and there is no fallback
BillingEmailToOrNone(st) ==
    IF st.customer_context.email # "" THEN st.customer_context.email ELSE NoneStr

\* customer_context.get("email", "customer@example.com"): the key is always
\* there, so the fallback address is never taken
BillingEmailTo(st) == st.customer_context.email

\* the node goes on to its confirmation email: it builds the EmailInput,
\* which raises when the address is None, and awaits the email tool
BillingToEmail(r, lo, tl, ll, tr) ==
    IF BillingEmailTo(state[r]) = NoneStr
    THEN Fail(r, EmailInputError, tl, ll, tr)
    ELSE Step(r, "billing_email", state[r], lo, executed[r], outcome[r], tl, ll, tr)

BillingLLM(r) ==
    /\ pc[r] = "billing_llm"
    /\ \E b \in Backend(SpecialistContents) :
         LET g == GenerateAttempt(b)
         IN  IF g.raised
             THEN RetryOrFail(r, g)
             ELSE LET lo == [local[r] EXCEPT !.response = g.response]
                      tr == track(usage_tracker, g.response.prompt_tokens,
                                  g.response.completion_tokens, DefaultModel)
                  IN  IF RefundWanted(g.response.content, local[r].payment_history)
                      THEN Step(r, "billing_refund", state[r], lo, executed[r],
                                outcome[r], tool_log[r], Logged(r, g), tr)
                      ELSE BillingToEmail(r, lo, tool_log[r], Logged(r, g), tr)

BillingRefund(r) ==
    /\ pc[r] = "billing_refund"
    /\ \E raw \in RefundResults :
         LET out == ToolExecute(raw)
             recent_payment == local[r].payment_history.payments[1]
             lo  == IF out.success /\ out.result.success
                    THEN [local[r] EXCEPT !.tool_calls = Append(@,
                            [ tool   |-> "payment_gateway",
                              input  |-> [payment_id |-> recent_payment.payment_id,
                                          amount |-> recent_payment.amount],
                              output |-> out.result ])]
                    ELSE local[r]
         IN  BillingToEmail(r, lo,
                  Append(tool_log[r], ToolCall("billing", "payment_gateway", "refund", out)),
                  llm_log[r], usage_tracker)

BillingEmail(r) ==
    /\ pc[r] = "billing_email"
    /\ \E raw \in EmailResults :
         LET out == ToolExecute(raw)
             lo  == IF out.success
                    THEN [local[r] EXCEPT !.tool_calls = Append(@,
                            [ tool   |-> "email_sender",
                              input  |-> [to |-> BillingEmailTo(state[r])],
                              output |-> out.result ])]
                    ELSE local[r]
         IN  Return(r, BillingFinish(state[r], lo),
                    Append(tool_log[r], ToolCall("billing", "email_sender", "send", out)),
                    llm_log[r], usage_tracker)

-----------------------------------------------------------------------------
(* TechnicalAgent.execute: src/agents/technical_agent.py                   *)

TechnicalFinish(st, lo) ==
    LET st1 == [st EXCEPT !.resolution = Resolved(lo.response)]
        st2 == AppendInteraction(st1, "technical_agent", "troubleshoot",
                                 <<"S","e","a","r","c","h","e","d"," ","K","B"," ","a","n","d"," ","p","r","o","v","i","d","e","d"," ","t","e","c","h","n","i","c","a","l"," ","g","u","i","d","a","n","c","e">>,
                                 lo.tool_calls, <<"T","r","o","u","b","l","e","s","h","o","o","t","i","n","g"," ","g","u","i","d","e"," ","p","r","o","v","i","d","e","d">>)
    IN  NodeDone(SetTokenUsage(st2, "technical", lo.response), "technical")

TechnicalKb(r) ==
    /\ pc[r] = "technical_kb"
    /\ \E raw \in KnowledgeBaseResults :
         LET out == ToolExecute(raw)
             lo  == IF out.success
                    THEN [local[r] EXCEPT !.tool_calls = Append(@,
                            [ tool   |-> "knowledge_base",
                              input  |-> [category |-> "technical"],
                              output |-> out.result ])]
                    ELSE local[r]
         IN  Step(r, "technical_llm", state[r], lo, executed[r], outcome[r],
                  Append(tool_log[r], ToolCall("technical", "knowledge_base", "search", out)),
                  llm_log[r], usage_tracker)

TechnicalLLM(r) ==
    /\ pc[r] = "technical_llm"
    /\ \E b \in Backend(SpecialistContents) :
         LET g == GenerateAttempt(b)
         IN  IF g.raised
             THEN RetryOrFail(r, g)
             ELSE Step(r, "technical_email", state[r],
                       [local[r] EXCEPT !.response = g.response], executed[r],
                       outcome[r], tool_log[r], Logged(r, g),
                       track(usage_tracker, g.response.prompt_tokens,
                             g.response.completion_tokens, DefaultModel))

TechnicalEmail(r) ==
    /\ pc[r] = "technical_email"
    /\ \E raw \in EmailResults :
         LET out == ToolExecute(raw)
             lo  == IF out.success
                    THEN [local[r] EXCEPT !.tool_calls = Append(@,
                            [ tool   |-> "email_sender",
                              input  |-> [to |-> state[r].customer_context.email],
                              output |-> out.result ])]
                    ELSE local[r]
         IN  Return(r, TechnicalFinish(state[r], lo),
                    Append(tool_log[r], ToolCall("technical", "email_sender", "send", out)),
                    llm_log[r], usage_tracker)

-----------------------------------------------------------------------------
(* AccountAgent.execute: src/agents/account_agent.py                       *)

Password == <<"p","a","s","s","w","o","r","d">>

\* customer_context.get("email") or (customer_info.get("customer", {}).get("email")
\*                                   if customer_info else "customer@example.com")
AccountEmailTo(st, customer_info) ==
    IF st.customer_context.email # "" THEN st.customer_context.email
    ELSE IF ~IsNone(customer_info)
         THEN IF customer_info.found THEN customer_info.customer.email ELSE NoneStr
         ELSE "customer@example.com"

\* the subject of the account agent's email
AccountEmailSubject(st) ==
    IF Contains(Lower(st.ticket_content.subject), Password)
       \/ Contains(Lower(st.ticket_content.body), Password)
    THEN <<"P","a","s","s","w","o","r","d"," ","R","e","s","e","t"," ","L","i","n","k">>
    ELSE <<"A","c","c","o","u","n","t"," ","U","p","d","a","t","e",":"," ">> \o st.ticket_content.subject

AccountFinish(st, lo) ==
    LET st1 == [st EXCEPT !.resolution = Resolved(lo.response)]
        st2 == AppendInteraction(st1, "account_agent", "account_management",
                                 <<"H","a","n","d","l","e","d"," ","a","c","c","o","u","n","t"," ","i","s","s","u","e"," ","w","i","t","h"," ","d","a","t","a","b","a","s","e"," ","l","o","o","k","u","p">>,
                                 lo.tool_calls, <<"A","c","c","o","u","n","t"," ","i","s","s","u","e"," ","r","e","s","o","l","v","e","d">>)
    IN  NodeDone(SetTokenUsage(st2, "account", lo.response), "account")

AccountDb(r) ==
    /\ pc[r] = "account_db"
    /\ \E raw \in CustomerInfoResults :
         LET out == ToolExecute(raw)
             lo  == IF out.success
                    THEN [local[r] EXCEPT
                            !.customer_info = out.result,
                            !.tool_calls = Append(@,
                                [ tool   |-> "database_query",
                                  input  |-> [query_type |-> "customer_info",
                                              customer_id |-> state[r].customer_context.customer_id],
                                  output |-> out.result ])]
                    ELSE local[r]
         IN  Step(r, "account_llm", state[r], lo, executed[r], outcome[r],
                  Append(tool_log[r], ToolCall("account", "database_query", "customer_info", out)),
                  llm_log[r], usage_tracker)

\* the model call of the account agent returns; the agent then builds the
\* EmailInput, which raises when the address is None
AccountLLM(r) ==
    /\ pc[r] = "account_llm"
    /\ \E b \in Backend(SpecialistContents) :
         LET g  == GenerateAttempt(b)
             to == AccountEmailTo(state[r], local[r].customer_info)
         IN  IF g.raised
             THEN RetryOrFail(r, g)
             ELSE LET tr == track(usage_tracker, g.response.prompt_tokens,
                                  g.response.completion_tokens, DefaultModel)
                  IN  IF to = NoneStr
                      THEN Fail(r, EmailInputError, tool_log[r], Logged(r, g), tr)
                      ELSE Step(r, "account_email", state[r],
                                [local[r] EXCEPT !.response = g.response,
                                                 !.customer_email = to],
                                executed[r], outcome[r], tool_log[r], Logged(r, g), tr)

AccountEmail(r) ==
    /\ pc[r] = "account_email"
    /\ \E raw \in EmailResults :
         LET out == ToolExecute(raw)
             lo  == IF out.success
                    THEN [local[r] EXCEPT !.tool_calls = Append(@,
                            [ tool   |-> "email_sender",
                              input  |-> [to |-> local[r].customer_email,
                                          subject |-> AccountEmailSubject(state[r])],
                              output |-> out.result ])]
                    ELSE local[r]
         IN  Return(r, AccountFinish(state[r], lo),
                    Append(tool_log[r], ToolCall("account", "email_sender", "send", out)),
                    llm_log[r], usage_tracker)

-----------------------------------------------------------------------------
(* EscalationAgent.execute: src/agents/escalation_agent.py                 *)

escalation_keywords ==
    { <<"e","s","c","a","l","a","t">>, <<"h","u","m","a","n">>, <<"m","a","n","u","a","l"," ","r","e","v","i","e","w">>, <<"l","e","g","a","l">>, <<"c","o","m","p","l","i","a","n","c","e">>,
      <<"p","o","l","i","c","y"," ","e","x","c","e","p","t","i","o","n">>, <<"b","e","y","o","n","d"," ","m","y"," ","c","a","p","a","b","i","l","i","t","y">>, <<"s","p","e","c","i","a","l","i","z","e","d"," ","e","x","p","e","r","t","i","s","e">> }

check_human_escalation_needed(response) ==
    \E keyword \in escalation_keywords : Contains(Lower(response), keyword)

\* a variant: the keyword scan sets the flag should_escalate reads
EscalationResolutionFlagged(response) ==
    LET requires_human == check_human_escalation_needed(response.content)
    IN  [ status           |-> IF requires_human THEN "escalated" ELSE "resolved",
          response         |-> response.content,
          requires_human   |-> requires_human,
          needs_escalation |-> requires_human ]

\* a variant: the status follows the keywords, the flag is left unset
EscalationResolutionUnflagged(response) ==
    [ status         |-> IF check_human_escalation_needed(response.content)
                         THEN "escalated" ELSE "resolved",
      response       |-> response.content,
      requires_human |-> FALSE ]

EscalationResolution(response) ==
    LET requires_human == check_human_escalation_needed(response.content)
    IN  [ status         |-> IF requires_human THEN "escalated" ELSE "resolved",
          response       |-> response.content,
          requires_human |-> requires_human ]

EscalationFinish(st, lo) ==
    LET res == EscalationResolution(lo.response)
        st1 == [st EXCEPT !.resolution = res]
        st2 == AppendInteraction(st1, "escalation_agent",
                                 IF res.requires_human THEN "escalate" ELSE "resolve_complex",
                                 <<"C","o","m","p","r","e","h","e","n","s","i","v","e"," ","a","n","a","l","y","s","i","s"," ","o","f"," ","c","o","m","p","l","e","x"," ","i","s","s","u","e">>,
                                 lo.tool_calls,
                                 IF res.requires_human THEN <<"E","s","c","a","l","a","t","e","d"," ","t","o"," ","h","u","m","a","n">>
                                 ELSE <<"C","o","m","p","l","e","x"," ","i","s","s","u","e"," ","r","e","s","o","l","v","e","d">>)
    IN  NodeDone(SetTokenUsage(st2, "escalation", lo.response), "escalation")

EscalationDb(r) ==
    /\ pc[r] = "escalation_db"
    /\ \E raw \in CustomerInfoResults :
         LET out == ToolExecute(raw)
             lo  == IF out.success
                    THEN [local[r] EXCEPT
                            !.customer_info = out.result,
                            !.tool_calls = Append(@,
                                [ tool   |-> "database_query",
                                  input  |-> [query_type |-> "customer_info"],
                                  output |-> out.result ])]
                    ELSE local[r]
         IN  Step(r, "escalation_history", state[r], lo, executed[r], outcome[r],
                  Append(tool_log[r], ToolCall("escalation", "database_query", "customer_info", out)),
                  llm_log[r], usage_tracker)

EscalationHistory(r) ==
    /\ pc[r] = "escalation_history"
    /\ \E raw \in TicketHistoryResults :
         LET out == ToolExecute(raw)
             lo  == IF out.success
                    THEN [local[r] EXCEPT !.tool_calls = Append(@,
                            [ tool   |-> "database_query",
                              input  |-> [query_type |-> "ticket_history"],
                              output |-> out.result ])]
                    ELSE local[r]
         IN  Step(r, "escalation_kb", state[r], lo, executed[r], outcome[r],
                  Append(tool_log[r], ToolCall("escalation", "database_query", "ticket_history", out)),
                  llm_log[r], usage_tracker)

EscalationKb(r) ==
    /\ pc[r] = "escalation_kb"
    /\ \E raw \in KnowledgeBaseResults :
         LET out == ToolExecute(raw)
             lo  == IF out.success
                    THEN [local[r] EXCEPT !.tool_calls = Append(@,
                            [ tool   |-> "knowledge_base",
                              input  |-> [category |-> "all"],
                              output |-> out.result ])]
                    ELSE local[r]
         IN  Step(r, "escalation_llm", state[r], lo, executed[r], outcome[r],
                  Append(tool_log[r], ToolCall("escalation", "knowledge_base", "search", out)),
                  llm_log[r], usage_tracker)

EscalationLLM(r) ==
    /\ pc[r] = "escalation_llm"
    /\ \E b \in Backend(SpecialistContents) :
         LET g == GenerateAttempt(b)
         IN  IF g.raised
             THEN RetryOrFail(r, g)
             ELSE Return(r, EscalationFinish(state[r], [local[r] EXCEPT !.response = g.response]),
                         tool_log[r], Logged(r, g),
                         track(usage_tracker, g.response.prompt_tokens,
                               g.response.completion_tokens, DefaultModel))

-----------------------------------------------------------------------------
(* The workflow as a state machine                                         *)

Init ==
    /\ RunInit({"r1"})
    /\ parse_input = <<>>
    /\ parse_result = NoneRec
    /\ CallInit

Next ==
    \E r \in Runs :
        \/ Execute(r)
        \/ TriageDb(r)
        \/ TriageLLM(r)
        \/ BillingDb(r)
        \/ BillingLLM(r)
        \/ BillingRefund(r)
        \/ BillingEmail(r)
        \/ TechnicalKb(r)
        \/ TechnicalLLM(r)
        \/ TechnicalEmail(r)
        \/ AccountDb(r)
        \/ AccountLLM(r)
        \/ AccountEmail(r)
        \/ EscalationDb(r)
        \/ EscalationHistory(r)
        \/ EscalationKb(r)
        \/ EscalationLLM(r)
        \/ Cancel(r)

Spec == Init /\ [][Next]_vars


-----------------------------------------------------------------------------
(* The routing parser on its own: every text of up to MaxPieces pieces is  *)
(* given to TriageAgent._parse_routing_response once                       *)

\* what a classifier text is put together from
ParsePieces ==
    { <<"R","O","U","T","E",":">>, <<"U","r","g","e","n","c","y",":">>, <<"c","o","n","f","i","d","e","n","c","e",":">>, <<"R","E","A","S","O","N","I","N","G",":">>,
      <<" ">>, <<"\n">>, <<"b","i","l","l","i","n","g","_","a","g","e","n","t">>, <<"H","I","G","H">>, <<"0",".","9">> }

MaxPieces == 4

RECURSIVE PieceTexts(_)
PieceTexts(n) ==
    IF n = 0 THEN {<<>>}
    ELSE LET shorter == PieceTexts(n - 1)
         IN  shorter \cup {t \o p : t \in shorter, p \in ParsePieces}

ParseInit ==
    /\ RunInit({})
    /\ parse_input \in PieceTexts(MaxPieces)
    /\ parse_result = NoneRec
    /\ CallInit

\* routing_decision = self._parse_routing_response(response.content)
ParseStep ==
    /\ IsNone(parse_result)
    /\ parse_result' = [kind |-> "dict", value |-> parse_routing_response(parse_input)]
    /\ UNCHANGED parse_input
    /\ UNCHANGED runVars
    /\ UNCHANGED callVars

SpecParse == ParseInit /\ [][ParseStep]_vars

-----------------------------------------------------------------------------
(* Properties                                                              *)

\* run r has created its state
Started(r) == pc[r] \notin {"off", "idle"}

\* the classifier of run r has set the routing decision
Triaged(r) == Started(r) /\ Len(state[r].agent_interactions) >= 1

\* the text the classifier of run r answered with
TriageText(r) ==
    LET i == CHOOSE i \in 1..Len(llm_log[r]) :
                 llm_log[r][i].node = "triage" /\ ~llm_log[r][i].raised
    IN  llm_log[r][i].content

KnownTargets == {BILLING_AGENT, TECHNICAL_AGENT, ACCOUNT_AGENT, ESCALATION_AGENT}

UrgencyLevels == {URGENCY_LOW, URGENCY_MEDIUM, URGENCY_HIGH, URGENCY_CRITICAL}

\* the text has no ROUTE: label followed by a name
NoRouteField(t) == ~SearchWord(t, LabelRoute).found

\* the text has no CONFIDENCE: label followed by something float() accepts
NoConfidenceNumber(t) ==
    LET m == SearchNum(t, LabelConfidence)
    IN  ~m.found \/ ~FloatOk(Strip(m.group))

\* a labelled field is missing, or the confidence is not a number
Malformed(t) ==
    \/ NoRouteField(t)
    \/ ~SearchWord(t, LabelUrgency).found
    \/ ~SearchLine(t, LabelReasoning).found
    \/ NoConfidenceNumber(t)

\* C1: a run that succeeds has executed exactly two nodes, triage first and
\* then one specialist; at no point of a run has triage been entered twice
\* or a second specialist been run.
C1_TwoNodesPerRun ==
    \A r \in Runs :
        /\ Len(executed[r]) <= 2
        /\ (Len(executed[r]) >= 1 => executed[r][1] = "triage")
        /\ (Len(executed[r]) = 2 => executed[r][2] \in Specialists)
        /\ (pc[r] = "done" => Len(executed[r]) = 2)

C1_Witness ==
    \E r \in Runs : pc[r] = "done" /\ executed[r] = <<"triage", "billing">>

\* C2: a step in which a node fails takes the run to Failed without
\* executing another node and hands the exception to the caller; a failure
\* in triage leaves triage the only node executed; a run that is Failed
\* never changes again.
C2_FailedIsTerminal ==
    [][\A r \in Runs :
         /\ (pc[r] = "failed" =>
                /\ pc'[r] = "failed"
                /\ executed'[r] = executed[r]
                /\ state'[r] = state[r]
                /\ outcome'[r] = outcome[r])
         /\ (pc[r] # "failed" /\ pc'[r] = "failed" =>
                /\ executed'[r] = executed[r]
                /\ (local[r].node = "triage" => executed'[r] = <<"triage">>)
                /\ outcome'[r].kind = "exception"
                /\ outcome'[r].error.raised
                /\ outcome'[r].error.cls \in {"LLMError", "ValidationError"})]_vars

C2_Witness ==
    \E r \in Runs :
        /\ pc[r] = "failed"
        /\ executed[r] = <<"triage">>
        /\ outcome[r].kind = "exception"

\* C3: after a failure in triage or in the specialist the state of the run
\* has resolution.status = error and requires_human = true, its response is
\* the error message, and the caller got the exception.
C3_FailureForcesError ==
    \A r \in Runs :
        pc[r] = "failed" =>
            /\ state[r].resolution.status = "error"
            /\ state[r].resolution.requires_human = TRUE
            /\ state[r].resolution.response = ErrorPrefix \o outcome[r].error.text
            /\ state[r].metadata.error_count = 1
            /\ outcome[r].kind = "exception"

C3_Witness ==
    \E r \in Runs :
        /\ pc[r] = "failed"
        /\ Len(executed[r]) = 2
        /\ state[r].resolution.status = "error"

\* C4: whenever a run has ended, Failed included, what the caller of
\* TicketWorkflow.execute received is a request state.
C4_CallerGetsState ==
    \A r \in Runs :
        pc[r] \in {"done", "failed"} => outcome[r].kind = "state"

\* C5: route_after_triage always names a specialist, and the specialist that
\* ran is the one the table gives for the routing target: its own node for
\* each of the four known targets, escalation for every other value.
C5_RouteByTable ==
    \A r \in Runs :
        Started(r) =>
            /\ route_after_triage(state[r]) \in Specialists
            /\ (Len(executed[r]) = 2 =>
                  LET target == state[r].routing.assigned_agent
                      node   == executed[r][2]
                  IN  /\ (target = BILLING_AGENT    => node = "billing")
                      /\ (target = TECHNICAL_AGENT  => node = "technical")
                      /\ (target = ACCOUNT_AGENT    => node = "account")
                      /\ (target = ESCALATION_AGENT => node = "escalation")
                      /\ (target \notin KnownTargets => node = "escalation"))

C5_Witness ==
    \E r \in Runs :
        /\ Len(executed[r]) = 2
        /\ state[r].routing.assigned_agent = <<"T","e","c","h","n","i","c","a","l","_","A","g","e","n","t">>
        /\ executed[r][2] = "escalation"

\* C6: once the classifier has set the routing decision its target is one
\* of the four specialist identities, its confidence lies in [0,1] and its
\* urgency is one of low, medium, high, critical.
C6_RoutingWellFormed ==
    \A r \in Runs :
        Triaged(r) =>
            /\ state[r].routing.assigned_agent \in KnownTargets
            /\ DecLeq(Dec(0, 0), state[r].routing.confidence_score)
            /\ DecLeq(state[r].routing.confidence_score, Dec(1, 0))
            /\ state[r].routing.urgency \in UrgencyLevels

\* C7 as stated: resolution.status is one of pending, resolved, escalated,
\* error, and requires_human is true exactly when the status is escalated.
C7_RequiresHumanIffEscalated ==
    \A r \in Runs :
        Started(r) =>
            /\ state[r].resolution.status \in {"pending", "resolved", "escalated", "error"}
            /\ (state[r].resolution.requires_human
                    <=> state[r].resolution.status = "escalated")

\* C7: resolution.status is one of pending, resolved, escalated, error, and
\* requires_human is true exactly when the status is escalated or error.
C7_RequiresHumanIffEscalatedOrError ==
    \A r \in Runs :
        Started(r) =>
            /\ state[r].resolution.status \in {"pending", "resolved", "escalated", "error"}
            /\ (state[r].resolution.requires_human
                    <=> state[r].resolution.status \in {"escalated", "error"})

C7_Witness ==
    \E r \in Runs :
        /\ pc[r] = "done"
        /\ state[r].resolution.status = "escalated"
        /\ state[r].resolution.requires_human

-----------------------------------------------------------------------------
(* The retry policy on its own: create_retry_decorator's wait for a policy *)
(* and the number of the attempt that failed                               *)

MaxFailedAttempts == 6

\* the min_wait / max_wait a policy may be created with; the default is 2 / 10
RetryPolicies ==
    { [min_wait |-> lo, max_wait |-> hi] : lo \in {0, 1, MinWait, 4}, hi \in {4, MaxWait, 60} }

BackoffInit ==
    /\ RunInit({})
    /\ parse_input = <<>>
    /\ parse_result = NoneRec
    /\ track_input = NoneRec
    /\ track_log = <<>>
    /\ \E policy \in RetryPolicies, n \in 1..MaxFailedAttempts :
           backoff_input = [ kind |-> "policy", attempt |-> n,
                             min_wait |-> policy.min_wait, max_wait |-> policy.max_wait ]
    /\ backoff_result = NoneRec

\* the wait the policy computes after the attempt failed
BackoffStep ==
    /\ IsNone(backoff_result)
    /\ backoff_result' =
           [ kind  |-> "seconds",
             value |-> wait_exponential(backoff_input.attempt, backoff_input.min_wait,
                                        backoff_input.max_wait) ]
    /\ UNCHANGED <<backoff_input, track_input, track_log>>
    /\ UNCHANGED parseVars
    /\ UNCHANGED runVars

SpecBackoff == BackoffInit /\ [][BackoffStep]_vars

-----------------------------------------------------------------------------
(* Properties of the model client and the retry policy                     *)

\* the attempts of the generate call run r made in node
Attempts(r, node) == {i \in 1..Len(llm_log[r]) : llm_log[r][i].node = node}

\* the generate calls of run r that have ended: each success, and the
\* failure that ended the run
EndedCalls(r) ==
    Cardinality({i \in 1..Len(llm_log[r]) : ~llm_log[r][i].raised})
        + (IF pc[r] = "failed" /\ outcome[r].error.cls = "LLMError" THEN 1 ELSE 0)

RetryableTexts == {FailureText("RateLimited"), FailureText("TimedOut")}

DefaultPolicy(input) == input.min_wait = MinWait /\ input.max_wait = MaxWait

\* C11: a generate call that ended in a timeout failure was attempted exactly
\* MaxAttempts times, every attempt a timeout (so a timeout on the first
\* attempt alone never ends the call).
C11_RetryBound ==
    \A r \in Runs :
        pc[r] = "failed" /\ outcome[r].error.text = FailureText("TimedOut") =>
            LET tries == Attempts(r, local[r].node)
            IN  /\ Cardinality(tries) = MaxAttempts
                /\ \A i \in tries : llm_log[r][i].content = FailureText("TimedOut")

\* C12: an attempt that failed with anything but a rate limit or a timeout is
\* the only attempt of its call and the last thing the run did: the run has
\* failed, there was no sleep after it and no attempt follows it.
C12_PermanentFailsOnce ==
    \A r \in Runs :
        \A i \in 1..Len(llm_log[r]) :
            LET e == llm_log[r][i]
            IN  e.raised /\ e.content \notin RetryableTexts =>
                    /\ i = Len(llm_log[r])
                    /\ pc[r] = "failed"
                    /\ e.slept = 0
                    /\ Attempts(r, e.node) = {i}

C12_Witness ==
    \E r \in Runs :
        /\ pc[r] = "failed"
        /\ outcome[r].error.text = FailureText("InvalidRequest")
        /\ Cardinality(Attempts(r, local[r].node)) = 1

\* C13 as stated: with the default policy the wait after failed attempt n is
\* min(max_wait, min_wait * 2^(n-1)) seconds.
C13_BackoffDoubles ==
    ~IsNone(backoff_result) /\ DefaultPolicy(backoff_input) =>
        LET doubled == MinWait * Pow2(backoff_input.attempt - 1)
        IN  backoff_result.value = IF doubled <= MaxWait THEN doubled ELSE MaxWait

\* C13: with the default policy the wait after failed attempt n is 2^(n-1)
\* seconds kept between min_wait and max_wait: 2 s after the first failure,
\* 2 s after the second, 4 s after a third, 8 s after a fourth and 10 s from
\* then on; it never exceeds max_wait.
C13_BackoffClamped ==
    ~IsNone(backoff_result) /\ DefaultPolicy(backoff_input) =>
        /\ backoff_result.value <= MaxWait
        /\ backoff_result.value =
               CASE backoff_input.attempt = 1 -> 2
                 [] backoff_input.attempt = 2 -> 2
                 [] backoff_input.attempt = 3 -> 4
                 [] backoff_input.attempt = 4 -> 8
                 [] OTHER -> 10

C13_Witness ==
    /\ ~IsNone(backoff_result)
    /\ DefaultPolicy(backoff_input)
    /\ backoff_input.attempt = 2
    /\ backoff_result.value = 2

\* C14: the step that cancels a suspended run changes nothing of the run's
\* state, of its node, tool and generate histories and of the usage tracker,
\* and hands CancelledError to the caller; a cancelled run never changes
\* again.
C14_CancelStops ==
    [][\A r \in Runs :
         /\ (pc[r] # "cancelled" /\ pc'[r] = "cancelled" =>
                /\ state'[r] = state[r]
                /\ executed'[r] = executed[r]
                /\ tool_log'[r] = tool_log[r]
                /\ llm_log'[r] = llm_log[r]
                /\ usage_tracker' = usage_tracker
                /\ outcome'[r].kind = "exception"
                /\ outcome'[r].error.cls = "CancelledError")
         /\ (pc[r] = "cancelled" =>
                /\ pc'[r] = "cancelled"
                /\ state'[r] = state[r]
                /\ executed'[r] = executed[r]
                /\ tool_log'[r] = tool_log[r]
                /\ llm_log'[r] = llm_log[r]
                /\ outcome'[r] = outcome[r])]_vars

C14_Witness ==
    \E r \in Runs :
        /\ pc[r] = "cancelled"
        /\ Len(executed[r]) = 2
        /\ Len(tool_log[r]) >= 1
        /\ state[r].resolution.status = "pending"

\* C15: the usage tracker has counted at least one call for every generate
\* call that has ended, in success or in failure.
C15_EveryCallTracked ==
    usage_tracker.calls >= EndedCalls("r1") + EndedCalls("r2")

-----------------------------------------------------------------------------
(* The usage tracker on its own: TokenUsageTracker.track called directly   *)
(* with token counts and model ids                                         *)

MaxTracks == 2

TrackedTokenCounts == {0, 1, 250, 1000000}

\* the model ids of the price table, and one it does not list
TrackedModels == {DefaultModel, "claude-sonnet-3-5", "claude-opus-4", "gpt-4"}

TrackInit ==
    /\ RunInit({})
    /\ parse_input = <<>>
    /\ parse_result = NoneRec
    /\ CallInit

\* usage_tracker.track(prompt_tokens, completion_tokens, model)
TrackCall ==
    /\ usage_tracker.calls < MaxTracks
    /\ \E p \in TrackedTokenCounts, c \in TrackedTokenCounts, m \in TrackedModels :
         /\ track_input' = [ kind |-> "args", prompt_tokens |-> p,
                             completion_tokens |-> c, model |-> m ]
         /\ usage_tracker' = track(usage_tracker, p, c, m)
    /\ UNCHANGED <<pc, state, local, executed, outcome, tool_log, llm_log, clock>>
    /\ UNCHANGED <<backoff_input, backoff_result, track_log>>
    /\ UNCHANGED parseVars

SpecTrack == TrackInit /\ [][TrackCall]_vars

\* the rates of the price table, dollars per million tokens
InputRate(model)  == IF model = "claude-opus-4" THEN 15 ELSE 3
OutputRate(model) == IF model = "claude-opus-4" THEN 75 ELSE 15

\* C16: a call of track adds to total_cost, counted in millionths of a
\* dollar, prompt_tokens * input rate + completion_tokens * output rate, with
\* the rates of the model's price-table entry and the default model's rates
\* for a model the table does not list; a million prompt and a million
\* completion tokens of the default model add 18 dollars.
C16_CostAdded ==
    [][usage_tracker'.calls # usage_tracker.calls =>
          LET a     == track_input'
              added == usage_tracker'.total_cost - usage_tracker.total_cost
          IN  /\ added = a.prompt_tokens * InputRate(a.model)
                           + a.completion_tokens * OutputRate(a.model)
              /\ (a.prompt_tokens = 1000000 /\ a.completion_tokens = 1000000
                    /\ a.model = DefaultModel => added = 18 * 1000000)]_vars

C16_Witness ==
    /\ ~IsNone(track_input)
    /\ track_input.model = "gpt-4"
    /\ track_input.prompt_tokens = 1000000
    /\ track_input.completion_tokens = 1000000
    /\ usage_tracker.calls = 1
    /\ usage_tracker.total_cost = 18 * 1000000

-----------------------------------------------------------------------------
(* Two runs at once, sharing the usage tracker.  The runs interleave at    *)
(* their awaits; the tickets carry no customer id and the classifier sends *)
(* them to billing or to escalation                                        *)

ConcTriageTexts ==
    { <<"R","O","U","T","E",":"," ","b","i","l","l","i","n","g","_","a","g","e","n","t"," ","|"," ","U","R","G","E","N","C","Y",":"," ","m","e","d","i","u","m"," ","|"," ","C","O","N","F","I","D","E","N","C","E",":"," ","0",".","9","2"," ","|"," ","R","E","A","S","O","N","I","N","G",":"," ","C","u","s","t","o","m","e","r"," ","m","e","n","t","i","o","n","s"," ","b","i","l","l","i","n","g","-","r","e","l","a","t","e","d"," ","t","e","r","m","s">>,
      <<"I"," ","a","m"," ","n","o","t"," ","s","u","r","e"," ","w","h","e","r","e"," ","t","h","i","s"," ","b","e","l","o","n","g","s",".">> }

ConcSpecialistTexts == { <<"Y","o","u","r"," ","i","s","s","u","e"," ","i","s"," ","r","e","s","o","l","v","e","d",".">> }

\* the inputs of the two runs are of the kind above, and their tools succeed
ConcInputs ==
    \A r \in Runs :
        /\ (pc[r] # "idle" => state[r].customer_context.customer_id = "")
        /\ \A i \in 1..Len(llm_log[r]) :
               \/ llm_log[r][i].content \in ConcTriageTexts \cup ConcSpecialistTexts
               \/ llm_log[r][i].content = FailureText("TimedOut")
        /\ \A i \in 1..Len(tool_log[r]) : tool_log[r][i].success

ConcInit ==
    /\ RunInit(Runs)
    /\ parse_input = <<>>
    /\ parse_result = NoneRec
    /\ CallInit

ConcNext ==
    \E r \in Runs :
        \/ Execute(r) /\ ConcInputs'
        \/ TriageLLM(r) /\ ConcInputs'
        \/ BillingLLM(r) /\ ConcInputs'
        \/ BillingEmail(r) /\ ConcInputs'
        \/ EscalationKb(r) /\ ConcInputs'
        \/ EscalationLLM(r) /\ ConcInputs'

SpecConc == ConcInit /\ [][ConcNext]_vars

RECURSIVE SumLog(_, _)
SumLog(log, field) ==
    IF log = <<>> THEN 0 ELSE log[1][field] + SumLog(Tail(log), field)

\* the generate attempts of run r that succeeded, each followed by track()
Tracked(r) == SelectSeq(llm_log[r], LAMBDA e : ~e.raised)

\* C17: whatever the interleaving of the runs, the tracker holds the totals
\* of a whole number of track() calls and has lost none: total_calls is the
\* number of calls made by all runs, the token totals and the cost are the
\* sums over those calls, and get_summary reports the same.
C17_NoLostUpdate ==
    LET n  == Len(Tracked("r1")) + Len(Tracked("r2"))
        tp == SumLog(Tracked("r1"), "prompt_tokens") + SumLog(Tracked("r2"), "prompt_tokens")
        tc == SumLog(Tracked("r1"), "completion_tokens")
                  + SumLog(Tracked("r2"), "completion_tokens")
    IN  /\ usage_tracker.calls = n
        /\ usage_tracker.total_prompt_tokens = tp
        /\ usage_tracker.total_completion_tokens = tc
        /\ usage_tracker.total_cost = 3 * tp + 15 * tc
        /\ get_summary(usage_tracker).total_calls = n
        /\ get_summary(usage_tracker).total_tokens = tp + tc
        /\ get_summary(usage_tracker).total_cost = 3 * tp + 15 * tc

C17_Witness ==
    /\ pc["r1"] = "billing_email"
    /\ pc["r2"] = "escalation_llm"
    /\ Len(Tracked("r1")) = 2
    /\ Len(Tracked("r2")) = 1
    /\ usage_tracker.calls = 3
    /\ llm_log["r1"][1].prompt_tokens # llm_log["r2"][1].prompt_tokens

-----------------------------------------------------------------------------
(* Properties of the interaction log and of the resolution                 *)

\* the agent_name an agent writes into its interaction record
AgentOf(node) ==
    CASE node = "triage"     -> "triage_agent"
      [] node = "billing"    -> "billing_agent"
      [] node = "technical"  -> "technical_agent"
      [] node = "account"    -> "account_agent"
      [] node = "escalation" -> "escalation_agent"

\* the text the specialist of a finished run r generated
SpecialistText(r) == llm_log[r][Len(llm_log[r])].content

\* C18: the interaction log of a run that succeeded has exactly two records,
\* the classifier's first and the executed specialist's second, and the
\* timestamp of the second is not before that of the first.
C18_TwoInteractions ==
    \A r \in Runs :
        pc[r] = "done" =>
            LET log == state[r].agent_interactions
            IN  /\ Len(log) = 2
                /\ log[1].agent_name = "triage_agent"
                /\ log[2].agent_name = AgentOf(executed[r][2])
                /\ log[1].timestamp <= log[2].timestamp

C18_Witness ==
    \E r \in Runs :
        /\ pc[r] = "done"
        /\ Len(state[r].agent_interactions) = 2
        /\ state[r].agent_interactions[2].agent_name = "technical_agent"

\* C19: no step of a run removes, changes or moves a record of the
\* interaction log; the log changes only in the step in which a node returns,
\* and that step appends exactly one record, the returning node's, at the
\* end.
C19_AppendOnly ==
    [][\A r \in Runs :
         Started(r) =>
            LET old      == state[r].agent_interactions
                new      == state'[r].agent_interactions
                returned == state'[r].metadata.latency_ms \ state[r].metadata.latency_ms
            IN  /\ Len(new) >= Len(old)
                /\ SubSeq(new, 1, Len(old)) = old
                /\ (returned = {} => new = old)
                /\ \A node \in returned :
                       /\ returned = {node}
                       /\ Len(new) = Len(old) + 1
                       /\ new[Len(new)].agent_name = AgentOf(node)]_vars

C19_Witness ==
    \E r \in Runs :
        /\ state[r] # NoState
        /\ Len(state[r].agent_interactions) = 2
        /\ state[r].agent_interactions[1].action = "route"
        /\ state[r].agent_interactions[2].agent_name = "escalation_agent"
        /\ state[r].metadata.latency_ms = {"triage", "escalation"}

\* C20: when a specialist has finished, the resolution is escalated with
\* requires_human = true if the text the model generated for it contains an
\* escalation phrase, and resolved otherwise.
C20_KeywordsEscalate ==
    \A r \in Runs :
        pc[r] = "done" =>
            IF check_human_escalation_needed(SpecialistText(r))
            THEN /\ state[r].resolution.status = "escalated"
                 /\ state[r].resolution.requires_human
            ELSE state[r].resolution.status = "resolved"

-----------------------------------------------------------------------------
(* Properties of the tools and of the nodes' use of them                   *)

\* the messages of the exceptions the tools' internal logic may raise
ToolErrors == {"database unavailable", "search unavailable", "gateway error", "smtp error"}

\* the tool calls that returned in this step of run r
NewToolCalls(r) ==
    {tool_log'[r][i] : i \in (Len(tool_log[r]) + 1)..Len(tool_log'[r])}

\* C21: a call of a tool's execute always returns an outcome and never makes
\* the run fail: the outcome has success = false, no result and the message
\* of the exception when the tool's logic raised, and success = true, no
\* error and the result otherwise, also when the result itself reports that
\* the operation did not succeed (a refund the gateway declined).
C21_ToolNeverRaises ==
    [][\A r \in Runs :
         \A c \in NewToolCalls(r) :
            /\ pc'[r] # "failed"
            /\ outcome'[r] = outcome[r] \/ outcome'[r].kind = "state"
            /\ \/ ~c.success /\ IsNone(c.result) /\ c.error \in ToolErrors
               \/ c.success /\ c.result.kind = "dict" /\ c.error = NoneStr]_vars

C21_Witness ==
    \E r \in Runs :
        \E i, j \in 1..Len(tool_log[r]) :
            /\ tool_log[r][i].tool = "payment_gateway"
            /\ tool_log[r][i].success
            /\ ~tool_log[r][i].result.success
            /\ tool_log[r][j].tool = "email_sender"
            /\ ~tool_log[r][j].success
            /\ tool_log[r][j].error = "smtp error"
            /\ pc[r] = "done"

\* C22: whatever the tools returned and whatever the ticket, a run fails only
\* when a model call failed: the last thing a failed run did is an attempt of
\* generate that raised.  (No outcome of a tool, and no ticket, makes a node
\* raise after its model call succeeded.)
C22_ToolsNeverFailRun ==
    \A r \in Runs :
        pc[r] = "failed" =>
            /\ llm_log[r] # <<>>
            /\ llm_log[r][Len(llm_log[r])].raised
            /\ outcome[r].error.cls = "LLMError"

\* C23: every tool call is made by the node that is executing and the tool
\* is on that node's list in the registry's agent_tool_mapping; the payment
\* gateway is called by the billing node only (the escalation node, which
\* may, does not).
C23_ToolWhitelist ==
    [][\A r \in Runs :
         \A c \in NewToolCalls(r) :
            /\ c.node = local[r].node
            /\ c.tool \in agent_tool_mapping(local[r].node)
            /\ (c.tool = "payment_gateway" =>
                   local[r].node \notin {"triage", "technical", "account"})]_vars

C23_Witness ==
    \E r \in Runs :
        /\ pc[r] = "done"
        /\ \E i \in 1..Len(tool_log[r]) :
               tool_log[r][i].tool = "payment_gateway" /\ tool_log[r][i].node = "billing"
        /\ \E i \in 1..Len(tool_log[r]) :
               tool_log[r][i].tool = "database_query" /\ tool_log[r][i].node = "triage"

-----------------------------------------------------------------------------
(* Properties of the request state                                         *)

\* the variables that belong to run r
OwnedBy(r) == <<pc[r], state[r], local[r], executed[r], outcome[r], tool_log[r], llm_log[r]>>

\* the entry of llm_log[r] for the successful generate call of node
CallOf(r, node) ==
    LET i == CHOOSE i \in 1..Len(llm_log[r]) :
                 llm_log[r][i].node = node /\ ~llm_log[r][i].raised
    IN  llm_log[r][i]

\* what the state of run r holds comes from run r alone
OwnData(r) ==
    Started(r) =>
        /\ state[r].ticket_id = "T-" \o r
        /\ state[r].correlation_id = "CID-" \o r
        /\ Len(state[r].agent_interactions) = Cardinality(state[r].metadata.latency_ms)
        /\ state[r].metadata.latency_ms \subseteq Range(executed[r])
        /\ DOMAIN state[r].metadata.token_usage = state[r].metadata.latency_ms
        /\ (Triaged(r) =>
               /\ state[r].routing = parse_routing_response(TriageText(r))
               /\ state[r].metadata.token_usage["triage"].prompt
                      = CallOf(r, "triage").prompt_tokens)
        /\ (pc[r] = "done" =>
               /\ state[r].resolution.response = SpecialistText(r)
               /\ state[r].metadata.token_usage[executed[r][2]].prompt
                      = CallOf(r, executed[r][2]).prompt_tokens)

\* C24: with two runs interleaved at their awaits, a step changes the state,
\* the position and the histories of one run only, and what a run's state
\* holds comes from that run alone: its own identifiers, the routing parsed
\* from its own classifier text, one interaction per node it executed itself
\* and the token counts of its own model calls.
C24_RunOwnsState ==
    /\ [][\E r \in Runs : \A q \in Runs \ {r} : OwnedBy(q)' = OwnedBy(q)]_vars
    /\ [](\A r \in Runs : OwnData(r))

C24_Witness ==
    /\ pc["r1"] = "done"
    /\ pc["r2"] = "done"
    /\ state["r1"].routing.assigned_agent = BILLING_AGENT
    /\ state["r2"].routing.assigned_agent = ESCALATION_AGENT
    /\ state["r1"].metadata.token_usage["triage"].prompt
           # state["r2"].metadata.token_usage["triage"].prompt
    /\ state["r1"].ticket_id # state["r2"].ticket_id

\* what create_initial_state fixes for the whole run
Immutables(st) ==
    [ ticket_id      |-> st.ticket_id,
      correlation_id |-> st.correlation_id,
      timestamp      |-> st.timestamp,
      ticket_content |-> st.ticket_content ]

\* C25: from the step that creates the state onwards, no step of the run,
\* the failure path included, changes ticket_id, correlation_id, the
\* timestamp or the ticket content (subject, body, category_hint); and a
\* state handed to the caller has them as well.
C25_RequestImmutable ==
    [][\A r \in Runs :
         /\ Started(r) =>
               /\ Started(r)'
               /\ Immutables(state'[r]) = Immutables(state[r])
         /\ outcome'[r].kind = "state" =>
               Immutables(outcome'[r].state) = Immutables(state'[r])]_vars

C25_Witness ==
    \E r \in Runs :
        /\ pc[r] = "failed"
        /\ state[r].resolution.status = "error"
        /\ state[r].ticket_content.category_hint = "billing"
        /\ state[r].ticket_content.subject = <<"I"," ","w","a","s"," ","c","h","a","r","g","e","d"," ","t","w","i","c","e">>
        /\ state[r].timestamp = 0
        /\ Len(state[r].agent_interactions) = 1

\* C26: no step of a run removes a key of customer_context or changes
\* customer_id or email; tier and account_status change only in the step in
\* which the classifier's customer_info lookup returns, and only when that
\* call succeeded and found the customer.
C26_ContextOnlyEnriched ==
    [][\A r \in Runs :
         Started(r) =>
            LET old == state[r].customer_context
                new == state'[r].customer_context
            IN  /\ DOMAIN old \subseteq DOMAIN new
                /\ new.customer_id = old.customer_id
                /\ new.email = old.email
                /\ (new.tier # old.tier \/ new.account_status # old.account_status) =>
                       /\ local[r].node = "triage"
                       /\ \E c \in NewToolCalls(r) :
                              /\ c.tool = "database_query"
                              /\ c.op = "customer_info"
                              /\ c.success
                              /\ c.result.found]_vars

C26_Witness ==
    \E r \in Runs :
        /\ pc[r] = "done"
        /\ state[r].customer_context.tier = "pro"
        /\ state[r].customer_context.account_status = "active"
        /\ state[r].customer_context.email = "john@example.com"
        /\ \E i \in 1..Len(tool_log[r]) : ~tool_log[r][i].success

\* C27: no step of a run removes or changes an entry of metadata.token_usage;
\* the mapping changes only in the step in which a node returns, which adds
\* one entry under that node's name holding the token counts of the node's
\* model call; after a run that succeeded the mapping holds the classifier's
\* entry and the executed specialist's entry and nothing else.
C27_UsageGrows ==
    /\ [][\A r \in Runs :
            Started(r) =>
               LET old      == state[r].metadata.token_usage
                   new      == state'[r].metadata.token_usage
                   returned == state'[r].metadata.latency_ms \ state[r].metadata.latency_ms
               IN  /\ DOMAIN old \subseteq DOMAIN new
                   /\ \A k \in DOMAIN old : new[k] = old[k]
                   /\ DOMAIN new \ DOMAIN old = returned
                   /\ Cardinality(returned) <= 1]_vars
    /\ [](\A r \in Runs :
            pc[r] = "done" =>
               /\ DOMAIN state[r].metadata.token_usage = {"triage", executed[r][2]}
               /\ \A k \in {"triage", executed[r][2]} :
                      /\ state[r].metadata.token_usage[k].prompt = CallOf(r, k).prompt_tokens
                      /\ state[r].metadata.token_usage[k].completion
                             = CallOf(r, k).completion_tokens)

C27_Witness ==
    \E r \in Runs :
        /\ pc[r] = "done"
        /\ DOMAIN state[r].metadata.token_usage = {"triage", "account"}
        /\ state[r].metadata.token_usage["triage"].prompt = 100
        /\ state[r].metadata.token_usage["account"].prompt = 250

-----------------------------------------------------------------------------
(* The bundled backend's classifier answer: src/llm/client.py              *)

\* the characters of the identifiers and enum values that the prompts quote
Chars(s) ==
    CASE s = ""        -> <<>>
      [] s = "C12345"  -> <<"C","1","2","3","4","5">>
      [] s = "C99999"  -> <<"C","9","9","9","9","9">>
      [] s = "unknown" -> <<"u","n","k","n","o","w","n">>
      [] s = "pro"     -> <<"p","r","o">>
      [] s = "active"  -> <<"a","c","t","i","v","e">>

\* the user message TriageAgent.execute builds from the state
TriageUserMessage(st) ==
    <<"C","u","s","t","o","m","e","r"," ","T","i","c","k","e","t",":","\n","S","u","b","j","e","c","t",":"," ">> \o st.ticket_content.subject
      \o <<"\n","B","o","d","y",":"," ">> \o st.ticket_content.body
      \o <<"\n","\n","C","u","s","t","o","m","e","r"," ","C","o","n","t","e","x","t",":","\n","-"," ","C","u","s","t","o","m","e","r"," ","I","D",":"," ">> \o Chars(st.customer_context.customer_id)
      \o <<"\n","-"," ","T","i","e","r",":"," ">> \o Chars(st.customer_context.tier)
      \o <<"\n","-"," ","A","c","c","o","u","n","t"," ","S","t","a","t","u","s",":"," ">> \o Chars(st.customer_context.account_status)
      \o <<"\n","\n","A","n","a","l","y","z","e"," ","t","h","i","s"," ","t","i","c","k","e","t"," ","a","n","d"," ","p","r","o","v","i","d","e"," ","y","o","u","r"," ","r","o","u","t","i","n","g"," ","d","e","c","i","s","i","o","n",".">>

\* MockAnthropicClient._generate_mock_response for the classifier's system
\* prompt: the first list of words of which one occurs in the message decides
generate_mock_response(user_message) ==
    LET user_lower == Lower(user_message)
        any(words) == \E word \in words : Contains(user_lower, word)
    IN  IF any({<<"c","h","a","r","g","e">>, <<"b","i","l","l","i","n","g">>, <<"r","e","f","u","n","d">>, <<"p","a","y","m","e","n","t">>})
        THEN <<"R","O","U","T","E",":"," ","b","i","l","l","i","n","g","_","a","g","e","n","t"," ","|"," ","U","R","G","E","N","C","Y",":"," ","m","e","d","i","u","m"," ","|"," ","C","O","N","F","I","D","E","N","C","E",":"," ","0",".","9","2"," ","|"," ","R","E","A","S","O","N","I","N","G",":"," ","C","u","s","t","o","m","e","r"," ","m","e","n","t","i","o","n","s"," ","b","i","l","l","i","n","g","-","r","e","l","a","t","e","d"," ","t","e","r","m","s">>
        ELSE IF any({<<"b","u","g">>, <<"e","r","r","o","r">>, <<"c","r","a","s","h">>, <<"n","o","t"," ","w","o","r","k","i","n","g">>})
        THEN <<"R","O","U","T","E",":"," ","t","e","c","h","n","i","c","a","l","_","a","g","e","n","t"," ","|"," ","U","R","G","E","N","C","Y",":"," ","h","i","g","h"," ","|"," ","C","O","N","F","I","D","E","N","C","E",":"," ","0",".","8","8"," ","|"," ","R","E","A","S","O","N","I","N","G",":"," ","T","e","c","h","n","i","c","a","l"," ","i","s","s","u","e"," ","r","e","p","o","r","t","e","d">>
        ELSE IF any({<<"p","a","s","s","w","o","r","d">>, <<"a","c","c","o","u","n","t">>, <<"l","o","g","i","n">>, <<"p","r","o","f","i","l","e">>})
        THEN <<"R","O","U","T","E",":"," ","a","c","c","o","u","n","t","_","a","g","e","n","t"," ","|"," ","U","R","G","E","N","C","Y",":"," ","m","e","d","i","u","m"," ","|"," ","C","O","N","F","I","D","E","N","C","E",":"," ","0",".","8","5"," ","|"," ","R","E","A","S","O","N","I","N","G",":"," ","A","c","c","o","u","n","t"," ","m","a","n","a","g","e","m","e","n","t"," ","i","s","s","u","e">>
        ELSE <<"R","O","U","T","E",":"," ","e","s","c","a","l","a","t","i","o","n","_","a","g","e","n","t"," ","|"," ","U","R","G","E","N","C","Y",":"," ","l","o","w"," ","|"," ","C","O","N","F","I","D","E","N","C","E",":"," ","0",".","6","0"," ","|"," ","R","E","A","S","O","N","I","N","G",":"," ","U","n","c","l","e","a","r"," ","c","a","t","e","g","o","r","y">>

-----------------------------------------------------------------------------
(* Properties of the billing scenario, of the parser and of the calls      *)

\* run r has finished the ticket of the billing scenario, and its classifier
\* text is what the bundled backend answers for that ticket
BillingScenario(r) ==
    /\ pc[r] = "done"
    /\ state[r].ticket_content.subject = <<"I"," ","w","a","s"," ","c","h","a","r","g","e","d"," ","t","w","i","c","e">>
    /\ Contains(state[r].ticket_content.body, <<"s","u","b","s","c","r","i","p","t","i","o","n">>)
    /\ TriageText(r) = generate_mock_response(TriageUserMessage(state[r]))

\* the tools recorded in the tool_calls of the interactions of run r
RecordedTools(r) ==
    UNION { { state[r].agent_interactions[i].tool_calls[j].tool :
                  j \in 1..Len(state[r].agent_interactions[i].tool_calls) } :
            i \in 1..Len(state[r].agent_interactions) }

\* C28 as stated: a finished run of the billing scenario has the billing
\* target and status resolved, and some interaction records a payment or a
\* lookup action in its tool_calls, for every customer id and email.
C28_BillingScenario ==
    \A r \in Runs :
        BillingScenario(r) =>
            /\ state[r].routing.assigned_agent = BILLING_AGENT
            /\ state[r].resolution.status = "resolved"
            /\ RecordedTools(r) \cap {"database_query", "payment_gateway"} # {}

\* C28: a finished run of the billing scenario has the billing target, the
\* billing node executed and status resolved, for every customer id and
\* email; a lookup action is recorded in the billing interaction's
\* tool_calls exactly when the customer id is not empty and the
\* payment_history lookup succeeded, and a payment action only together
\* with a lookup action.  With an empty customer id no lookup is made and at
\* most the notification is recorded.
C28_BillingScenarioLookup ==
    \A r \in Runs :
        BillingScenario(r) =>
            /\ state[r].routing.assigned_agent = BILLING_AGENT
            /\ executed[r] = <<"triage", "billing">>
            /\ state[r].resolution.status = "resolved"
            /\ state[r].agent_interactions[1].tool_calls = <<>>
            /\ ("database_query" \in RecordedTools(r)) <=>
                   /\ state[r].customer_context.customer_id # ""
                   /\ \E i \in 1..Len(tool_log[r]) :
                          /\ tool_log[r][i].node = "billing"
                          /\ tool_log[r][i].op = "payment_history"
                          /\ tool_log[r][i].success
            /\ ("payment_gateway" \in RecordedTools(r)) => ("database_query" \in RecordedTools(r))
            /\ (state[r].customer_context.customer_id = "" =>
                   RecordedTools(r) \subseteq {"email_sender"})

C28_Witness ==
    \E r \in Runs :
        /\ BillingScenario(r)
        /\ state[r].customer_context.customer_id = ""
        /\ RecordedTools(r) = {"email_sender"}
        /\ state[r].resolution.status = "resolved"

\* the label occurs somewhere in the text, in any case
HasLabel(t, label) == \E i \in 1..Len(t) : LabelAt(t, i, label)

\* C29: each field of the parser's result is decided by its own label alone,
\* whatever the other fields are.  The target is the word after ROUTE: and
\* escalation_agent when there is none; the urgency is the word after
\* URGENCY: (in lower case) and medium when there is none; the confidence is
\* the number after CONFIDENCE: and 0.5 when there is none or float() rejects
\* it; the reasoning is the rest of the line after REASONING: and the fixed
\* text when there is none.  Labels match in any case, a value that is taken
\* is a piece of the text, and a field whose label does not occur at all has
\* its default.
C29_FieldsIndependent ==
    ~IsNone(parse_result) =>
        LET t          == parse_input
            v          == parse_result.value
            route      == SearchWord(t, LabelRoute)
            urgency    == SearchWord(t, LabelUrgency)
            confidence == SearchNum(t, LabelConfidence)
            reasoning  == SearchLine(t, LabelReasoning)
        IN  /\ v.assigned_agent =
                   IF route.found THEN Strip(route.group) ELSE ESCALATION_AGENT
            /\ v.urgency =
                   IF urgency.found THEN Lower(Strip(urgency.group)) ELSE URGENCY_MEDIUM
            /\ v.confidence_score =
                   IF confidence.found /\ FloatOk(Strip(confidence.group))
                   THEN FloatOf(Strip(confidence.group)) ELSE Dec(5, 1)
            /\ v.reasoning =
                   IF reasoning.found THEN Strip(reasoning.group) ELSE CouldNotParse
            /\ (route.found => Contains(t, v.assigned_agent))
            /\ (urgency.found => Contains(Lower(t), v.urgency))
            /\ (reasoning.found => Contains(t, v.reasoning))
            /\ (~HasLabel(t, LabelRoute) => v.assigned_agent = ESCALATION_AGENT)
            /\ (~HasLabel(t, LabelUrgency) => v.urgency = URGENCY_MEDIUM)
            /\ (~HasLabel(t, LabelConfidence) => v.confidence_score = Dec(5, 1))
            /\ (~HasLabel(t, LabelReasoning) => v.reasoning = CouldNotParse)

C29_Witness ==
    /\ ~IsNone(parse_result)
    /\ parse_input = <<"U","r","g","e","n","c","y",":">> \o <<"H","I","G","H">> \o <<"\n">> \o <<"c","o","n","f","i","d","e","n","c","e",":">>
    /\ parse_result.value.urgency = URGENCY_HIGH
    /\ parse_result.value.assigned_agent = ESCALATION_AGENT
    /\ parse_result.value.confidence_score = Dec(5, 1)
    /\ parse_result.value.reasoning = CouldNotParse

\* the calls of generate run r made in node that have ended: the attempts
\* after which the retry wrapper did not sleep
CallsOf(r, node) == {i \in Attempts(r, node) : llm_log[r][i].slept = 0}

\* the resolution create_initial_state writes
PendingResolution ==
    [status |-> "pending", response |-> <<>>, requires_human |-> FALSE,
     satisfaction_predicted |-> NoneStr]

\* C30: a node makes one generate call: a node that has returned made
\* exactly one, no node makes more than one; a run that succeeded made
\* exactly two calls and the tracker, which started at 0, counts 2; a
\* specialist that returned left the status resolved or escalated; and from
\* the classifier's return until the specialist returns or the run fails the
\* resolution is the pending one of the initial state.
C30_OneCallPerNode ==
    \A r \in Runs :
        Started(r) =>
            /\ \A node \in NodeNames :
                   /\ Cardinality(CallsOf(r, node)) <= 1
                   /\ (node \in state[r].metadata.latency_ms =>
                          Cardinality(CallsOf(r, node)) = 1)
            /\ (pc[r] = "done" =>
                   /\ Len(llm_log[r]) = 2
                   /\ usage_tracker.calls = 2
                   /\ get_summary(usage_tracker).total_calls = 2
                   /\ state[r].resolution.status \in {"resolved", "escalated"})
            /\ (pc[r] \notin {"done", "failed"} => state[r].resolution = PendingResolution)

C30_Witness ==
    \E r \in Runs :
        /\ pc[r] = "done"
        /\ Len(llm_log[r]) = 2
        /\ usage_tracker.calls = 2
        /\ state[r].resolution.status = "escalated"
        /\ executed[r] = <<"triage", "escalation">>

-----------------------------------------------------------------------------
(* The usage tracker on its own, with resets: any sequence of up to MaxOps *)
(* calls of TokenUsageTracker.track and TokenUsageTracker.reset            *)

MaxOps == 4

UsageTokenCounts == {0, 250}

UsageModels == {DefaultModel, "claude-opus-4"}

UsageInit ==
    /\ RunInit({})
    /\ parse_input = <<>>
    /\ parse_result = NoneRec
    /\ CallInit

\* usage_tracker.track(prompt_tokens, completion_tokens, model)
UsageTrack ==
    /\ Len(track_log) < MaxOps
    /\ \E p \in UsageTokenCounts, c \in UsageTokenCounts, m \in UsageModels :
         /\ track_log' = Append(track_log, [ op |-> "track", prompt_tokens |-> p,
                                             completion_tokens |-> c, model |-> m ])
         /\ usage_tracker' = track(usage_tracker, p, c, m)
    /\ UNCHANGED <<pc, state, local, executed, outcome, tool_log, llm_log, clock>>
    /\ UNCHANGED <<track_input, backoff_input, backoff_result>>
    /\ UNCHANGED parseVars

\* usage_tracker.reset()  (LLMClient.reset_usage)
UsageReset ==
    /\ Len(track_log) < MaxOps
    /\ track_log' = Append(track_log, [ op |-> "reset", prompt_tokens |-> 0,
                                        completion_tokens |-> 0, model |-> NoneStr ])
    /\ usage_tracker' = reset(usage_tracker)
    /\ UNCHANGED <<pc, state, local, executed, outcome, tool_log, llm_log, clock>>
    /\ UNCHANGED <<track_input, backoff_input, backoff_result>>
    /\ UNCHANGED parseVars

UsageNext == UsageTrack \/ UsageReset

SpecUsage == UsageInit /\ [][UsageNext]_vars

\* the track calls made since the most recent reset
SinceReset(log) ==
    LET resets == {i \in 1..Len(log) : log[i].op = "reset"}
    IN  IF resets = {} THEN log ELSE SubSeq(log, SetMax(resets) + 1, Len(log))

\* the cost of the calls of a log, in millionths of a dollar
RECURSIVE CostOf(_)
CostOf(log) ==
    IF log = <<>> THEN 0
    ELSE log[1].prompt_tokens * InputRate(log[1].model)
           + log[1].completion_tokens * OutputRate(log[1].model) + CostOf(Tail(log))

\* C31: after any sequence of track and reset calls the summary's prompt,
\* completion, cost and call totals are the sums over the track calls made
\* since the most recent reset, all of them zero right after a reset; and a
\* step that is not a reset decreases none of the totals.
C31_TotalsSinceReset ==
    /\ [](LET calls   == SinceReset(track_log)
              summary == get_summary(usage_tracker)
          IN  /\ summary.total_prompt_tokens = SumLog(calls, "prompt_tokens")
              /\ summary.total_completion_tokens = SumLog(calls, "completion_tokens")
              /\ summary.total_cost = CostOf(calls)
              /\ summary.total_calls = Len(calls)
              /\ (track_log # <<>> /\ track_log[Len(track_log)].op = "reset" =>
                     /\ summary.total_prompt_tokens = 0
                     /\ summary.total_completion_tokens = 0
                     /\ summary.total_tokens = 0
                     /\ summary.total_cost = 0
                     /\ summary.total_calls = 0))
    /\ [][track_log' # track_log /\ track_log'[Len(track_log')].op # "reset" =>
             /\ usage_tracker'.total_prompt_tokens >= usage_tracker.total_prompt_tokens
             /\ usage_tracker'.total_completion_tokens >= usage_tracker.total_completion_tokens
             /\ usage_tracker'.total_cost >= usage_tracker.total_cost
             /\ usage_tracker'.calls = usage_tracker.calls + 1]_vars

C31_Witness ==
    /\ Len(track_log) = 4
    /\ track_log[1].op = "track"
    /\ track_log[2].op = "reset"
    /\ track_log[3].op = "track"
    /\ track_log[4].op = "track"
    /\ track_log[1].prompt_tokens = 250
    /\ usage_tracker.calls = 2
    /\ usage_tracker.total_prompt_tokens = 500

-----------------------------------------------------------------------------
(* Properties of the billing node's refund and notification                *)

\* the positions in run r's record of the billing node's calls of tool
BillingCalls(r, tool) ==
    {i \in 1..Len(tool_log[r]) : tool_log[r][i].node = "billing" /\ tool_log[r][i].tool = tool}

\* the attempts of the billing node's model call that returned a response
BillingReturned(r) ==
    {i \in 1..Len(llm_log[r]) : llm_log[r][i].node = "billing" /\ ~llm_log[r][i].raised}

\* the billing node's model call of run r failed for good
BillingModelFailed(r) ==
    /\ pc[r] = "failed"
    /\ llm_log[r] # <<>>
    /\ llm_log[r][Len(llm_log[r])].node = "billing"
    /\ llm_log[r][Len(llm_log[r])].raised

\* C32: the billing node invokes the refund tool at most once, only after
\* its model call returned, only when the text has the marker
\* ACTION: PROCESS_REFUND and the payment lookup gave at least one payment;
\* the notification is sent after the model call returned and after the
\* refund, if one was wanted; a billing node whose model call failed invoked
\* neither the refund tool nor the email tool.
C32_RefundAfterModel ==
    /\ [](\A r \in Runs :
            LET refunds == BillingCalls(r, "payment_gateway")
                emails  == BillingCalls(r, "email_sender")
            IN  /\ Cardinality(refunds) <= 1
                /\ (refunds # {} =>
                       /\ BillingReturned(r) # {}
                       /\ \A i \in BillingReturned(r) :
                              Contains(llm_log[r][i].content, ProcessRefund)
                       /\ ~IsNone(local[r].payment_history)
                       /\ Len(local[r].payment_history.payments) >= 1)
                /\ (emails # {} =>
                       /\ BillingReturned(r) # {}
                       /\ \A i \in refunds, j \in emails : i < j
                       /\ \A i \in BillingReturned(r) :
                              RefundWanted(llm_log[r][i].content, local[r].payment_history)
                                  => refunds # {})
                /\ (BillingModelFailed(r) => refunds = {} /\ emails = {}))
    /\ [][\A r \in Runs :
            \A c \in NewToolCalls(r) :
               c.node = "billing" /\ c.tool \in {"payment_gateway", "email_sender"} =>
                   /\ ~IsNone(local[r].response)
                   /\ pc[r] = IF c.tool = "payment_gateway"
                              THEN "billing_refund" ELSE "billing_email"]_vars

C32_Witness ==
    \E r \in Runs :
        /\ pc[r] = "done"
        /\ \E i \in BillingCalls(r, "payment_gateway"), j \in BillingCalls(r, "email_sender") :
               /\ i < j
               /\ tool_log[r][i].success
               /\ tool_log[r][i].result.success
        /\ \E i \in BillingReturned(r) : Contains(llm_log[r][i].content, ProcessRefund)

\* C33: a run that ended in failure, its resolution's status being error,
\* executed no refund: it did not invoke the payment gateway at all,
\* whatever the ticket, the one without an email address included.
C33_FailedRunNoRefund ==
    \A r \in Runs :
        Started(r) /\ state[r].resolution.status = "error" =>
            /\ pc[r] = "failed"
            /\ \A i \in 1..Len(tool_log[r]) : tool_log[r][i].tool # "payment_gateway"

C33_Witness ==
    \E r \in Runs :
        /\ BillingModelFailed(r)
        /\ state[r].resolution.status = "error"
        /\ state[r].customer_context.email = ""
        /\ ~IsNone(local[r].payment_history)
        /\ local[r].payment_history.payments # <<>>

-----------------------------------------------------------------------------
(* Properties of a node whose model call fails                             *)

\* the nodes of run r that returned before the one it is in
ReturnedNodes(r) == {executed[r][i] : i \in 1..(Len(executed[r]) - 1)}

\* C34: a node whose model call fails leaves the routing, the resolution,
\* the interactions and the token-usage mapping as they were when it started:
\* no step of a node that does not return changes any of them, a failed node
\* appended no interaction and recorded no usage entry, and the error
\* resolution of the failed run is written over the resolution the node had
\* left pending.
C34_FailedNodeFrame ==
    /\ [][\A r \in Runs :
            /\ Started(r)
            /\ pc[r] \notin {"done", "failed", "cancelled"}
            /\ executed'[r] = executed[r]
            /\ pc'[r] # "done"
            => /\ state'[r].routing = state[r].routing
               /\ state'[r].agent_interactions = state[r].agent_interactions
               /\ state'[r].metadata.token_usage = state[r].metadata.token_usage
               /\ IF pc'[r] = "failed"
                  THEN /\ state[r].resolution = PendingResolution
                       /\ state'[r].resolution =
                              [ status         |-> "error",
                                response       |-> ErrorPrefix \o outcome'[r].error.text,
                                requires_human |-> TRUE ]
                  ELSE state'[r].resolution = state[r].resolution]_vars
    /\ [](\A r \in Runs :
            pc[r] = "failed" /\ outcome[r].error.cls = "LLMError" =>
                /\ Len(state[r].agent_interactions) = Len(executed[r]) - 1
                /\ \A i \in 1..Len(state[r].agent_interactions) :
                       state[r].agent_interactions[i].agent_name = AgentOf(executed[r][i])
                /\ DOMAIN state[r].metadata.token_usage = ReturnedNodes(r)
                /\ (Len(executed[r]) = 1 =>
                       state[r].routing = [ urgency          |-> URGENCY_MEDIUM,
                                            assigned_agent   |-> <<>>,
                                            confidence_score |-> Dec(0, 0),
                                            reasoning        |-> <<>> ]))

C34_Witness ==
    \E r \in Runs :
        /\ pc[r] = "failed"
        /\ outcome[r].error.cls = "LLMError"
        /\ executed[r] = <<"triage", "escalation">>
        /\ Len(tool_log[r]) >= 3
        /\ Len(state[r].agent_interactions) = 1
        /\ DOMAIN state[r].metadata.token_usage = {"triage"}

-----------------------------------------------------------------------------
(* Properties of the tool calls an interaction records                     *)

\* the tool calls recorded in the interactions of run r
RecordedCalls(r) ==
    UNION { { state[r].agent_interactions[i].tool_calls[k] :
                k \in 1..Len(state[r].agent_interactions[i].tool_calls) } :
            i \in 1..Len(state[r].agent_interactions) }

\* C35: every recorded tool call is one whose action succeeded: a recorded
\* payment_gateway call processed the refund and a recorded email_sender
\* call sent the email.
C35_RecordedCallsSucceeded ==
    \A r \in Runs :
        Started(r) =>
            \A c \in RecordedCalls(r) :
                c.tool \in {"payment_gateway", "email_sender"} => c.output.success

-----------------------------------------------------------------------------
(* Termination of a run whose awaited calls all return or fail             *)

\* the steps of a run that is not cancelled: process_ticket is called and
\* every tool call and every attempt of a model call returns or raises
RunNext ==
    \E r \in Runs :
        \/ Execute(r)
        \/ TriageDb(r)
        \/ TriageLLM(r)
        \/ BillingDb(r)
        \/ BillingLLM(r)
        \/ BillingRefund(r)
        \/ BillingEmail(r)
        \/ TechnicalKb(r)
        \/ TechnicalLLM(r)
        \/ TechnicalEmail(r)
        \/ AccountDb(r)
        \/ AccountLLM(r)
        \/ AccountEmail(r)
        \/ EscalationDb(r)
        \/ EscalationHistory(r)
        \/ EscalationKb(r)
        \/ EscalationLLM(r)

\* the event loop resumes a run whenever the call it awaits has ended
SpecLive == Init /\ [][RunNext]_vars /\ WF_vars(RunNext)

\* C36: a run whose backend calls and tool calls all return or fail ends,
\* returning its state or failing, having executed at most two nodes and
\* made at most MaxAttempts attempts of each node's model call.
C36_RunTerminates ==
    /\ <>(pc["r1"] \in {"done", "failed"})
    /\ [](\A r \in Runs :
            Started(r) =>
                /\ Len(executed[r]) <= 2
                /\ \A node \in NodeNames : Cardinality(Attempts(r, node)) <= MaxAttempts)

C36_Witness ==
    /\ pc["r1"] = "failed"
    /\ Len(executed["r1"]) = 2
    /\ Cardinality(Attempts("r1", "triage")) = 1
    /\ Cardinality(Attempts("r1", executed["r1"][2])) = 1
    /\ Len(tool_log["r1"]) >= 3

-----------------------------------------------------------------------------
(* Properties of the escalation flag and of the mock classifier            *)

\* C37: the resolution of a run never carries a true needs_escalation flag,
\* so should_escalate is false of every state of the run, and the node the
\* classifier selected is the last one: no escalation step follows a
\* specialist.
C37_NeverNeedsEscalation ==
    \A r \in Runs :
        Started(r) =>
            /\ "needs_escalation" \in DOMAIN state[r].resolution =>
                   ~state[r].resolution.needs_escalation
            /\ ~should_escalate(state[r])
            /\ Len(executed[r]) <= 2
            /\ executed[r][1] = "triage"
            /\ (Len(executed[r]) = 2 => executed[r][2] \in Specialists)

C37_Witness ==
    \E r \in Runs :
        /\ pc[r] = "done"
        /\ executed[r] = <<"triage", "escalation">>
        /\ state[r].resolution.requires_human
        /\ state[r].resolution.status = "escalated"
        /\ ~should_escalate(state[r])

\* the words of the bundled backend's classifier, list by list
BillingWords == {<<"c","h","a","r","g","e">>, <<"b","i","l","l","i","n","g">>, <<"r","e","f","u","n","d">>, <<"p","a","y","m","e","n","t">>}

TechnicalWords == {<<"b","u","g">>, <<"e","r","r","o","r">>, <<"c","r","a","s","h">>, <<"n","o","t"," ","w","o","r","k","i","n","g">>}

AccountWords == {<<"p","a","s","s","w","o","r","d">>, <<"a","c","c","o","u","n","t">>, <<"l","o","g","i","n">>, <<"p","r","o","f","i","l","e">>}

\* one of the words occurs in the ticket's subject or body, in any case
TicketHas(st, words) ==
    \E word \in words :
        \/ Contains(Lower(st.ticket_content.subject), word)
        \/ Contains(Lower(st.ticket_content.body), word)

\* the classifier of run r has returned, and its text is what the bundled
\* backend answers to the message built from the ticket
MockTriaged(r) ==
    /\ Triaged(r)
    /\ TriageText(r) = generate_mock_response(TriageUserMessage(state[r]))

\* C38: with the bundled backend the classifier picks the first category, in
\* the order billing, technical, account, of which a word occurs in the
\* ticket, and a ticket whose subject and body hold none of the words is
\* routed to the escalation specialist, whose node is executed.
C38_MockRouting ==
    \A r \in Runs :
        MockTriaged(r) =>
            /\ state[r].routing.assigned_agent =
                   IF TicketHas(state[r], BillingWords) THEN BILLING_AGENT
                   ELSE IF TicketHas(state[r], TechnicalWords) THEN TECHNICAL_AGENT
                   ELSE IF TicketHas(state[r], AccountWords) THEN ACCOUNT_AGENT
                   ELSE ESCALATION_AGENT
            /\ (~TicketHas(state[r], BillingWords \cup TechnicalWords \cup AccountWords) =>
                   executed[r] = <<"triage", "escalation">>)
=============================================================================
